---- MODULE Spec2Model ----
(***************************************************************************)
(* The prayer-time clock of src/script.js (class PrayerTimeApp): the       *)
(* schedule resolver (current / next / countdown), the cue scheduler       *)
(* (recitation and adhan audio) and the two timers that drive them.        *)
(*                                                                         *)
(* Time is in milliseconds of Malaysian civil time (the frame that         *)
(* getCurrentLocalTime produces), counted from local midnight of day 0.    *)
(* A time string of the CSV ("5:59 AM") is the record of its three fields  *)
(* [h, m, mod]; the empty cell is NoTime.                                 *)
(***************************************************************************)
EXTENDS Integers, Sequences, FiniteSets, TLC

(***************************************************************************)
(* Program constants (constructor, src/script.js:13-19).                   *)
(***************************************************************************)
PRAYER_NAMES == <<"Imsak", "Subuh", "Syuruk", "Zohor", "Asar", "Maghrib", "Isyak">>
DISPLAY_PRAYER_NAMES == <<"Subuh", "Syuruk", "Zohor", "Asar", "Maghrib", "Isyak">>
RECITATION_OFFSET_MIN == 10
UPDATE_INTERVAL == 1000
AUDIO_CLEAR_INTERVAL == 60 * 1000
AUDIO_TRIGGER_THRESHOLD == 1000

\* JS values
NULL == "null"
NullMs == -1
NoDateKey == -1
Infinity == 2147483647

MS_PER_MINUTE == 60 * 1000
MS_PER_DAY == 24 * 60 * MS_PER_MINUTE

(***************************************************************************)
(* Bounds of the model.                                                    *)
(***************************************************************************)
\* days 0..MaxDay have ticks; the run ends shortly after the midnight that follows
MaxDay == 1
\* at most MaxLate ticks of a run are late, by half an interval
MaxLate == 1
\* the app is started up to StartSlots half intervals before or after a whole minute
StartSlots == 1

HalfTick == UPDATE_INTERVAL \div 2
\* ticks are stepped one by one when due within the tolerance window of an
\* event: only there can a tick play a cue, or change current, next or the date
NearMs == AUDIO_TRIGGER_THRESHOLD
Days == 0..(MaxDay + 1)
Horizon == (MaxDay + 1) * MS_PER_DAY + 2 * AUDIO_CLEAR_INTERVAL
Lateness == {0, HalfTick}

NameSet == {PRAYER_NAMES[i] : i \in 1..Len(PRAYER_NAMES)}
DisplaySet == {DISPLAY_PRAYER_NAMES[i] : i \in 1..Len(DISPLAY_PRAYER_NAMES)}

\* position of a name in the canonical order, 0 for null
Pos(name) == IF name \in NameSet
             THEN CHOOSE i \in 1..Len(PRAYER_NAMES) : PRAYER_NAMES[i] = name
             ELSE 0

(***************************************************************************)
(* The schedule source: prayer_times.csv, one row per date.                *)
(***************************************************************************)
TS(h, m, mod) == [h |-> h, m |-> m, mod |-> mod]
NoTime == [h |-> 0, m |-> 0, mod |-> ""]

\* the empty object {} of state.todayPrayerTimes; also "no row for this date"
EmptyObj == [n \in {} |-> NoTime]

Row(imsak, subuh, syuruk, zohor, asar, maghrib, isyak) ==
    [n \in NameSet |->
        CASE n = "Imsak" -> imsak
          [] n = "Subuh" -> subuh
          [] n = "Syuruk" -> syuruk
          [] n = "Zohor" -> zohor
          [] n = "Asar" -> asar
          [] n = "Maghrib" -> maghrib
          [] n = "Isyak" -> isyak]

FullRow == Row(TS(5, 49, "AM"), TS(5, 59, "AM"), TS(7, 10, "AM"), TS(1, 5, "PM"),
               TS(4, 20, "PM"), TS(7, 10, "PM"), TS(8, 20, "PM"))
FullRow2 == Row(TS(5, 50, "AM"), TS(6, 0, "AM"), TS(7, 11, "AM"), TS(1, 5, "PM"),
                TS(4, 21, "PM"), TS(7, 9, "PM"), TS(8, 19, "PM"))
\* the two-entry schedule of the worked example
ExampleRow == Row(NoTime, TS(5, 59, "AM"), NoTime, TS(1, 5, "PM"), NoTime, NoTime, NoTime)
\* a non-decreasing row: Syuruk 5 minutes after Subuh, Zohor and Asar tied
TieRow == Row(TS(5, 49, "AM"), TS(5, 59, "AM"), TS(6, 4, "AM"), TS(1, 5, "PM"),
              TS(1, 5, "PM"), NoTime, NoTime)
\* a row out of order: Maghrib before Zohor, Imsak after everything else
UnsortedRow == Row(TS(11, 0, "PM"), TS(5, 59, "AM"), NoTime, TS(1, 5, "PM"),
                   NoTime, TS(12, 30, "PM"), NoTime)

CsvFull == [d \in Days |-> IF d > MaxDay THEN EmptyObj
                           ELSE IF d % 2 = 0 THEN FullRow ELSE FullRow2]
CsvExample == [d \in Days |-> IF d > MaxDay THEN EmptyObj ELSE ExampleRow]
CsvOdd == [d \in Days |-> IF d > MaxDay THEN EmptyObj
                          ELSE IF d % 2 = 0 THEN TieRow ELSE UnsortedRow]
CsvLate == [d \in Days |-> IF d = 1 THEN ExampleRow ELSE EmptyObj]
\* a row with malformed cells: Imsak without AM/PM, Syuruk with hour 13
BadRow == Row(TS(5, 39, ""), TS(5, 49, "AM"), TS(13, 10, "AM"), TS(1, 5, "PM"),
              TS(4, 20, "PM"), NoTime, NoTime)
CsvBad == [d \in Days |-> IF d > MaxDay THEN EmptyObj ELSE BadRow]
\* a file with rows for two days only, far from the first days
CsvSparse == [d \in 0..12 |-> IF d \in {9, 11} THEN (IF d = 9 THEN ExampleRow ELSE FullRow)
                              ELSE EmptyObj]
\* The text of a CSV file is named by the file; Rows gives its rows by date.
CsvFiles == {"full", "example", "odd", "late"}

\* state.csvDataRaw = "" (nothing loaded)
NoCsv == ""

Rows(csv) ==
    CASE csv = "full" -> CsvFull
      [] csv = "example" -> CsvExample
      [] csv = "odd" -> CsvOdd
      [] csv = "late" -> CsvLate
      [] csv = "bad" -> CsvBad
      [] csv = "sparse" -> CsvSparse
      [] OTHER -> [d \in {} |-> EmptyObj]

(***************************************************************************)
(* Audio files.                                                            *)
(***************************************************************************)
toLowerCase(name) ==
    CASE name = "Imsak" -> "imsak"
      [] name = "Subuh" -> "subuh"
      [] name = "Syuruk" -> "syuruk"
      [] name = "Zohor" -> "zohor"
      [] name = "Asar" -> "asar"
      [] name = "Maghrib" -> "maghrib"
      [] name = "Isyak" -> "isyak"

ReciteFile(name) == toLowerCase(name) \o "_recite.mp3"
AdhanFile(name) == toLowerCase(name) \o "_adhan.mp3"
Files == {ReciteFile(n) : n \in NameSet} \cup {AdhanFile(n) : n \in NameSet}

VARIABLES
    now,               \* the instant of the latest timer callback (or of start-up)
    csvFile,           \* what prayer_times.csv holds
    csvDataRaw,        \* state.csvDataRaw
    isInitialized,     \* state.isInitialized
    tickDue,           \* the next deadline of the clock interval timer
    clearDue,          \* the next deadline of the audio-clear interval timer
    currentDateKey,    \* state.currentDateKey
    todayPrayerTimes,  \* state.todayPrayerTimes
    nextPrayer,        \* state.nextPrayer
    nextTimeMs,        \* state.nextTimeMs
    audioPlayed,       \* state.audioPlayed
    currentPrayer,     \* the entry handed to updatePrayerHighlight
    timerText,         \* text of #next-prayer-timer
    lastOp,            \* the callback that ran last
    lastPlayed,        \* files handed to playAudio by the latest updateClock
    playsSinceClear,   \* per file, playAudio calls since audioPlayed was last cleared
    lateCount,         \* the number of ticks that ran late so far
    watch,             \* the entry whose cues are counted day by day
    playsToday,        \* checkPrayerAudio's playAudio calls for the two cue files
                       \* of the watched entry on the day of now
    playsYesterday,    \* the same on the day before the day of now
    \* the API variant (src/unnamed/part_000) and its environment
    variant,           \* which page runs: "csv", "api" or "perday"
    currentZone,       \* state.currentZone
    monthlyPrayerData, \* state.monthlyPrayerData
    localStorage,      \* window.localStorage
    storageFull,       \* localStorage.setItem of a month of data exceeds the quota
    remoteUp,          \* the remote answers requests
    inFlight,          \* remote requests that have not completed yet
    detecting,         \* a detectLocation call is waiting for its result
    userActions,       \* the number of selections the user has made
    tickSteps,         \* the steps of updateClock that the latest tick executed
    \* the life cycle of the CSV page: timers, init runs, retries
    clockTimers,       \* the active clock interval timers, with their deadlines
    clockInterval,     \* state.clockInterval (0 for null)
    audioTimers,       \* the active audio-clear interval timers, with their deadlines
    audioInterval,     \* state.audioInterval (0 for null)
    timeouts,          \* pending setTimeout callbacks that call init()
    awaiting,          \* the number of init() runs waiting for prayer_times.csv
    calls,             \* the number of restart, destroy, forceNextPrayer and file changes
    failures,          \* the number of init() runs that have failed
    addedAt,           \* for each file in state.audioPlayed, the instant it was added
    destroyed,         \* destroy() has returned, and init() or restart() was not called since
    \* one call of a function of the program on its own
    call,              \* the function and its arguments
    returned           \* what the call returned and left in the fields it writes

lifeVars == <<clockTimers, clockInterval, audioTimers, audioInterval, timeouts, awaiting,
              calls, failures, addedAt, destroyed>>

pureVars == <<call, returned>>

apiOnly == <<currentZone, monthlyPrayerData, localStorage, storageFull, remoteUp,
             inFlight, detecting, userActions, tickSteps>>

apiVars == <<variant, currentZone, monthlyPrayerData, localStorage, storageFull, remoteUp,
             inFlight, detecting, userActions, tickSteps, lifeVars, pureVars>>

vars == <<now, csvFile, csvDataRaw, isInitialized, tickDue, clearDue, currentDateKey,
          todayPrayerTimes, nextPrayer, nextTimeMs, audioPlayed, currentPrayer,
          timerText, lastOp, lastPlayed, playsSinceClear, lateCount, watch, playsToday,
          playsYesterday, apiVars>>

(***************************************************************************)
(* Dates and times.                                                        *)
(***************************************************************************)
DayOf(t) == t \div MS_PER_DAY
\* formatDate: the "d-Mon-yy" key of the date; the days of the model are
\* distinct dates of one century, so the day number stands for the key
formatDate(t) == DayOf(t)
getSeconds(t) == (t \div 1000) % 60

\* parseTime: [ok |-> FALSE] stands for the thrown Error
parseTime_noPM(timeStr) ==
    IF timeStr = NoTime THEN [ok |-> FALSE, hour |-> 0, minute |-> 0]
    ELSE [ok |-> TRUE, hour |-> timeStr.h % 12, minute |-> timeStr.m]
parseTime(timeStr) ==
    IF timeStr = NoTime THEN [ok |-> FALSE, hour |-> 0, minute |-> 0]
    ELSE IF timeStr.h < 1 \/ timeStr.h > 12 THEN [ok |-> FALSE, hour |-> 0, minute |-> 0]
    ELSE IF timeStr.m < 0 \/ timeStr.m > 59 THEN [ok |-> FALSE, hour |-> 0, minute |-> 0]
    ELSE IF timeStr.mod # "AM" /\ timeStr.mod # "PM" THEN [ok |-> FALSE, hour |-> 0, minute |-> 0]
    ELSE [ok |-> TRUE,
          hour |-> IF timeStr.mod = "PM" /\ timeStr.h # 12 THEN timeStr.h + 12
                   ELSE IF timeStr.mod = "AM" /\ timeStr.h = 12 THEN 0
                   ELSE timeStr.h,
          minute |-> timeStr.m]

\* getTimeInMs: hour:minute:00 on the date of the current instant t
getTimeInMs(t, hour, minute) ==
    DayOf(t) * MS_PER_DAY + (hour * 60 + minute) * MS_PER_MINUTE

hasPrayerTimes(times) == DOMAIN times # {}

\* times[name], undefined (here NoTime) when the key is absent
Cell(times, name) == IF name \in DOMAIN times THEN times[name] ELSE NoTime

(***************************************************************************)
(* Schedule repository: loadPrayerTimesForDate (CSV variant).             *)
(***************************************************************************)
HasRow(csv, key) == key \in DOMAIN Rows(csv) /\ Rows(csv)[key] # EmptyObj

\* the fields the call leaves in state, and the value it returns
loadPrayerTimesForDate_reset(csv, date, times, key) ==
    IF csv # NoCsv /\ HasRow(csv, formatDate(date))
    THEN [ok |-> TRUE, times |-> Rows(csv)[formatDate(date)], key |-> formatDate(date)]
    ELSE [ok |-> FALSE, times |-> EmptyObj, key |-> key]
loadPrayerTimesForDate(csv, date, times, key) ==
    IF csv = NoCsv THEN [ok |-> FALSE, times |-> times, key |-> key]
    ELSE IF HasRow(csv, formatDate(date))
         THEN [ok |-> TRUE, times |-> Rows(csv)[formatDate(date)], key |-> formatDate(date)]
         ELSE [ok |-> FALSE, times |-> times, key |-> key]

\* loadCSVData, after the file has been fetched and validated: today, else
\* the first of the next 7 days that has a row
\* the probing loop without its break: the last of the 7 days that has a row
ProbeNextDays_last(csv, today, i, times, key) ==
    LET found == {j \in i..7 : loadPrayerTimesForDate(csv, today + j * MS_PER_DAY, times, key).ok}
    IN IF found = {} THEN [ok |-> FALSE, times |-> times, key |-> key]
       ELSE loadPrayerTimesForDate(csv, today + (CHOOSE j \in found : \A k \in found : k <= j)
                                                    * MS_PER_DAY, times, key)
RECURSIVE ProbeNextDays(_, _, _, _, _)
ProbeNextDays(csv, today, i, times, key) ==
    IF i > 7 THEN [ok |-> FALSE, times |-> times, key |-> key]
    ELSE LET r == loadPrayerTimesForDate(csv, today + i * MS_PER_DAY, times, key)
         IN IF r.ok THEN r ELSE ProbeNextDays(csv, today, i + 1, times, key)

loadCSVData(csv, today, times, key) ==
    LET r == loadPrayerTimesForDate(csv, today, times, key)
    IN IF r.ok THEN r ELSE ProbeNextDays(csv, today, 1, times, key)

\* checkDateChange
checkDateChange(csv, t, times, key) ==
    IF formatDate(t) # key /\ csv # NoCsv
    THEN loadPrayerTimesForDate(csv, t, times, key)
    ELSE [ok |-> FALSE, times |-> times, key |-> key]

(***************************************************************************)
(* Schedule resolver.                                                      *)
(***************************************************************************)
\* the test of the highlight loop
HasArrived_strict(nowMs, timeMs) == nowMs > timeMs
HasArrived(nowMs, timeMs) == nowMs >= timeMs

\* the loop of checkAndUpdatePrayerHighlight over PRAYER_NAMES
RECURSIVE HighlightLoop_abort(_, _, _, _)
HighlightLoop_abort(times, t, i, cur) ==
    IF i > Len(PRAYER_NAMES) THEN cur
    ELSE LET name == PRAYER_NAMES[i]
             timeStr == Cell(times, name)
             p == parseTime(timeStr)
         IN IF timeStr = NoTime THEN HighlightLoop_abort(times, t, i + 1, cur)
            ELSE IF ~p.ok THEN cur
            ELSE HighlightLoop_abort(times, t, i + 1,
                     IF HasArrived(t, getTimeInMs(t, p.hour, p.minute)) THEN name ELSE cur)
RECURSIVE HighlightLoop(_, _, _, _)
HighlightLoop(times, t, i, cur) ==
    IF i > Len(PRAYER_NAMES) THEN cur
    ELSE LET name == PRAYER_NAMES[i]
             timeStr == Cell(times, name)
             p == parseTime(timeStr)
         IN HighlightLoop(times, t, i + 1,
                IF timeStr = NoTime THEN cur
                ELSE IF ~p.ok THEN cur
                ELSE IF HasArrived(t, getTimeInMs(t, p.hour, p.minute)) THEN name
                ELSE cur)

\* the current entry that checkAndUpdatePrayerHighlight hands on
ResolveCurrent_display(times, t) == HighlightLoop(times, t, 2, NULL)
ResolveCurrent(times, t) == HighlightLoop(times, t, 1, NULL)

\* the cells td[data-prayer] that populatePrayerTable builds for a schedule
TableCells(times) == {name \in DisplaySet : Cell(times, name) # NoTime}

\* the classes that updatePrayerHighlight leaves on the cell of prayerName
CellClass_both(times, t, prayerName, cur) ==
    LET timeStr == Cell(times, prayerName)
        p == parseTime(timeStr)
    IN IF timeStr = NoTime \/ ~p.ok THEN {}
       ELSE (IF prayerName = cur THEN {"current"} ELSE {}) \cup
            (IF t > getTimeInMs(t, p.hour, p.minute) + 5 * 60 * 1000 THEN {"passed"} ELSE {})
CellClass(times, t, prayerName, cur) ==
    LET timeStr == Cell(times, prayerName)
        p == parseTime(timeStr)
    IN IF timeStr = NoTime \/ ~p.ok THEN {}
       ELSE IF prayerName = cur /\ cur \in DisplaySet THEN {"current"}
       ELSE IF t > getTimeInMs(t, p.hour, p.minute) + 5 * 60 * 1000 THEN {"passed"}
       ELSE {}

\* updatePrayerHighlight(currentPrayer, now): the classes of every cell
updatePrayerHighlight(times, t, cur) ==
    [prayerName \in TableCells(times) |-> CellClass(times, t, prayerName, cur)]

\* prayersForTimer
prayersForTimer_all == PRAYER_NAMES
prayersForTimer == SelectSeq(PRAYER_NAMES, LAMBDA name : name # "Imsak")

\* the test of the next-prayer loop
IsNearerUpcoming_closed(timeMs, nowMs, best) == timeMs >= nowMs /\ timeMs < best
IsNearerUpcoming_last(timeMs, nowMs, best) == timeMs > nowMs /\ timeMs <= best
IsNearerUpcoming(timeMs, nowMs, best) == timeMs > nowMs /\ timeMs < best

RECURSIVE NextLoop(_, _, _, _)
NextLoop(times, t, i, acc) ==
    IF i > Len(prayersForTimer) THEN acc
    ELSE LET name == prayersForTimer[i]
             timeStr == Cell(times, name)
             p == parseTime(timeStr)
             timeMs == getTimeInMs(t, p.hour, p.minute)
         IN NextLoop(times, t, i + 1,
                IF timeStr = NoTime THEN acc
                ELSE IF ~p.ok THEN acc
                ELSE IF IsNearerUpcoming(timeMs, t, acc.nextTimeMs)
                     THEN [nextPrayer |-> name, nextTimeMs |-> timeMs]
                     ELSE acc)

\* formatTimeDifference
formatTimeDifference_nowrap(diffMs) ==
    LET totalSecs == diffMs \div 1000
    IN [hours |-> totalSecs \div 3600, mins |-> totalSecs \div 60,
        secs |-> totalSecs % 60]
formatTimeDifference(diffMs) ==
    LET totalSecs == diffMs \div 1000
    IN [hours |-> totalSecs \div 3600, mins |-> (totalSecs % 3600) \div 60,
        secs |-> totalSecs % 60]

Text(kind, prayer, d) ==
    [kind |-> kind, prayer |-> prayer, hours |-> d.hours, mins |-> d.mins, secs |-> d.secs]
NoDiff == [hours |-> 0, mins |-> 0, secs |-> 0]

\* updateNextPrayerTimer: the two state fields and the timer text it leaves
updateNextPrayerTimer_keep(times, t, np, nt) ==
    IF ~hasPrayerTimes(times)
    THEN [nextPrayer |-> np, nextTimeMs |-> nt, text |-> Text("loading", NULL, NoDiff)]
    ELSE LET r == NextLoop(times, t, 1, [nextPrayer |-> NULL, nextTimeMs |-> Infinity])
         IN IF r.nextPrayer = NULL
            THEN [nextPrayer |-> np, nextTimeMs |-> nt,
                  text |-> Text("allPrayersComplete", NULL, NoDiff)]
            ELSE [nextPrayer |-> r.nextPrayer, nextTimeMs |-> r.nextTimeMs,
                  text |-> Text("countdown", r.nextPrayer,
                                formatTimeDifference(r.nextTimeMs - t))]
updateNextPrayerTimer(times, t, np, nt) ==
    IF ~hasPrayerTimes(times)
    THEN [nextPrayer |-> np, nextTimeMs |-> nt, text |-> Text("loading", NULL, NoDiff)]
    ELSE LET r == NextLoop(times, t, 1, [nextPrayer |-> NULL, nextTimeMs |-> Infinity])
         IN IF r.nextPrayer = NULL
            THEN [nextPrayer |-> NULL, nextTimeMs |-> NullMs,
                  text |-> Text("allPrayersComplete", NULL, NoDiff)]
            ELSE [nextPrayer |-> r.nextPrayer, nextTimeMs |-> r.nextTimeMs,
                  text |-> Text("countdown", r.nextPrayer,
                                formatTimeDifference(r.nextTimeMs - t))]

(***************************************************************************)
(* Cue scheduler.                                                          *)
(***************************************************************************)
Abs(x) == IF x < 0 THEN -x ELSE x

shouldPlayAudio_nomemo(nowMs, targetMs, filename, played) ==
    Abs(nowMs - targetMs) < AUDIO_TRIGGER_THRESHOLD
shouldPlayAudio_wide(nowMs, targetMs, filename, played) ==
    Abs(nowMs - targetMs) <= AUDIO_TRIGGER_THRESHOLD /\ filename \notin played
shouldPlayAudio(nowMs, targetMs, filename, played) ==
    Abs(nowMs - targetMs) < AUDIO_TRIGGER_THRESHOLD /\ filename \notin played

\* checkPrayerAudio: the files handed to playAudio (and added to audioPlayed)
checkPrayerAudio_preceding(np, nt, t, played) ==
    IF np = NULL \/ nt = NullMs \/ nt = 0 THEN {}
    ELSE LET name == PRAYER_NAMES[Pos(np) - 1]
             reciteTime == nt - RECITATION_OFFSET_MIN * 60 * 1000
             recite == IF shouldPlayAudio(t, reciteTime, ReciteFile(name), played)
                       THEN {ReciteFile(name)} ELSE {}
             adhan == IF shouldPlayAudio(t, nt, AdhanFile(name), played \cup recite)
                      THEN {AdhanFile(name)} ELSE {}
         IN recite \cup adhan
checkPrayerAudio(np, nt, t, played) ==
    IF np = NULL \/ nt = NullMs \/ nt = 0 THEN {}
    ELSE IF np = "Imsak" THEN {}
    ELSE LET reciteTime == nt - RECITATION_OFFSET_MIN * 60 * 1000
             recite == IF shouldPlayAudio(t, reciteTime, ReciteFile(np), played)
                       THEN {ReciteFile(np)} ELSE {}
             adhan == IF shouldPlayAudio(t, nt, AdhanFile(np), played \cup recite)
                      THEN {AdhanFile(np)} ELSE {}
         IN recite \cup adhan

(***************************************************************************)
(* The state after construction, with the inputs of the run: the CSV file  *)
(* that is served and the instant at which the page is started.            *)
(***************************************************************************)
StartMinute == 5 * 60 + 40
StartTimes ==
    {StartMinute * MS_PER_MINUTE + k * HalfTick : k \in (0 - StartSlots)..StartSlots}
        \cup {StartMinute * MS_PER_MINUTE + AUDIO_CLEAR_INTERVAL \div 2}

\* the entries, other than Imsak, for which the file has a time on some day
CueNames(csv) ==
    {m \in NameSet \ {"Imsak"} : \E d \in DOMAIN Rows(csv) : Cell(Rows(csv)[d], m) # NoTime}

\* the CSV page has no zone, no month data and no remote requests
NoEntries == [k \in {} |-> ""]
\* no function is called on its own
NoCall == [fn |-> "none"]
PureUnused == call = NoCall /\ returned = NoCall
\* no timer, no init run and no retry: the runs that follow one init() call
LifeUnused ==
    /\ clockTimers = {}
    /\ clockInterval = 0
    /\ audioTimers = {}
    /\ audioInterval = 0
    /\ timeouts = {}
    /\ awaiting = 0
    /\ calls = 0
    /\ failures = 0
    /\ addedAt = NoEntries
    /\ destroyed = FALSE
ApiUnused ==
    /\ variant = "csv"
    /\ currentZone = "JHR04"
    /\ monthlyPrayerData = NoEntries
    /\ localStorage = NoEntries
    /\ storageFull = FALSE
    /\ remoteUp = TRUE
    /\ inFlight = {}
    /\ detecting = FALSE
    /\ userActions = 0
    /\ tickSteps = {}
    /\ LifeUnused
    /\ PureUnused

NoCues == [recite |-> 0, adhan |-> 0]

NoPlays == [f \in Files |-> 0]
InitialText == Text("initial", NULL, NoDiff)

Init ==
    /\ now \in StartTimes
    /\ csvFile \in CsvFiles
    /\ watch \in CueNames(csvFile)
    /\ csvDataRaw = NoCsv
    /\ isInitialized = FALSE
    /\ tickDue = 0
    /\ clearDue = 0
    /\ currentDateKey = NoDateKey
    /\ todayPrayerTimes = EmptyObj
    /\ nextPrayer = NULL
    /\ nextTimeMs = NullMs
    /\ audioPlayed = {}
    /\ currentPrayer = NULL
    /\ timerText = InitialText
    /\ lastOp = "constructed"
    /\ lastPlayed = {}
    /\ playsSinceClear = NoPlays
    /\ lateCount = 0
    /\ playsToday = NoCues
    /\ playsYesterday = NoCues
    /\ ApiUnused

(***************************************************************************)
(* init(): the CSV is fetched and validated, today's row (or the next      *)
(* available one) is loaded, both interval timers are started.  The        *)
(* updateClock call inside startClockUpdates returns at once, because      *)
(* isInitialized is still false.                                           *)
(***************************************************************************)
AppInit ==
    /\ lastOp = "constructed"
    /\ LET r == loadCSVData(csvFile, now, todayPrayerTimes, currentDateKey)
       IN /\ todayPrayerTimes' = r.times
          /\ currentDateKey' = r.key
    /\ csvDataRaw' = csvFile
    /\ tickDue' = now + UPDATE_INTERVAL
    /\ clearDue' = now + AUDIO_CLEAR_INTERVAL
    /\ isInitialized' = TRUE
    /\ lastOp' = "init"
    /\ UNCHANGED <<now, csvFile, nextPrayer, nextTimeMs, audioPlayed, currentPrayer,
                   timerText, lastPlayed, playsSinceClear, lateCount, watch, playsToday,
                   playsYesterday, apiVars>>

(***************************************************************************)
(* updateClock at instant t, entered with audioPlayed = played and the     *)
(* since-clear counts psc.                                                 *)
(***************************************************************************)
Count(counts, plays) == [f \in Files |-> IF f \in plays THEN counts[f] + 1 ELSE counts[f]]

\* updateClock on a state whose csvDataRaw, todayPrayerTimes and
\* currentDateKey are csv, times and key
updateClockOn(csv, times, key, t, played, psc) ==
    LET dc == IF getSeconds(t) = 0
              THEN checkDateChange(csv, t, times, key)
              ELSE [ok |-> FALSE, times |-> times, key |-> key]
        nx == updateNextPrayerTimer(dc.times, t, nextPrayer, nextTimeMs)
        plays == checkPrayerAudio(nx.nextPrayer, nx.nextTimeMs, t, played)
    IN /\ now' = t
       /\ todayPrayerTimes' = dc.times
       /\ currentDateKey' = dc.key
       /\ currentPrayer' = IF hasPrayerTimes(dc.times) THEN ResolveCurrent(dc.times, t)
                           ELSE currentPrayer
       /\ nextPrayer' = nx.nextPrayer
       /\ nextTimeMs' = nx.nextTimeMs
       /\ timerText' = nx.text
       /\ audioPlayed' = played \cup plays
       /\ lastPlayed' = plays
       /\ playsSinceClear' = Count(psc, plays)
       /\ LET before == IF DayOf(t) = DayOf(now) THEN playsToday ELSE NoCues
          IN playsToday' =
                 [recite |-> before.recite + (IF ReciteFile(watch) \in plays THEN 1 ELSE 0),
                  adhan |-> before.adhan + (IF AdhanFile(watch) \in plays THEN 1 ELSE 0)]
       /\ playsYesterday' = IF DayOf(t) = DayOf(now) THEN playsYesterday
                            ELSE IF DayOf(t) = DayOf(now) + 1 THEN playsToday
                            ELSE NoCues

updateClock(t, played, psc) ==
    /\ updateClockOn(csvDataRaw, todayPrayerTimes, currentDateKey, t, played, psc)
    /\ lastOp' = "tick"

(***************************************************************************)
(* Events: the instants around which a tick can change anything but the    *)
(* displayed time: an entry's time, its recitation time, midnight, and     *)
(* the whole minute at which a pending date change is picked up.           *)
(***************************************************************************)
RecitationOffsetMs == RECITATION_OFFSET_MIN * 60 * 1000

EntryTimes(times, t) ==
    {getTimeInMs(t, parseTime(times[n]).hour, parseTime(times[n]).minute) :
        n \in {m \in DOMAIN times : parseTime(times[m]).ok}}

\* the events of the day of instant d
Events(d) ==
    LET base == EntryTimes(todayPrayerTimes, d)
                    \cup (IF nextTimeMs > 0 THEN {nextTimeMs} ELSE {})
    IN base \cup {e - RecitationOffsetMs : e \in base}
            \cup {DayOf(d) * MS_PER_DAY, (DayOf(d) + 1) * MS_PER_DAY}
            \cup (IF formatDate(d) # currentDateKey /\ HasRow(csvDataRaw, formatDate(d))
                  THEN {(d \div MS_PER_MINUTE) * MS_PER_MINUTE,
                        (d \div MS_PER_MINUTE + 1) * MS_PER_MINUTE}
                  ELSE {})

InRegion(d) == \E e \in Events(d) : e - NearMs <= d /\ d <= e + NearMs

Min(S) == CHOOSE x \in S : \A y \in S : x <= y

\* the last tick deadline before the region of the next event, for a
\* deadline d that is in no region
QuietLanding(d) ==
    LET starts == {e - NearMs : e \in {x \in Events(d) : x - NearMs > d}}
    IN d + ((Min(starts) - 1 - d) \div UPDATE_INTERVAL) * UPDATE_INTERVAL

\* the callback of the audio-clear interval: audioPlayed.clear()
clearAudioPlayed_keep(played) == played
clearAudioPlayed(played) == {}

(***************************************************************************)
(* The clock interval fires: one updateClock, late ms after its deadline.  *)
(* Callbacks run in the order of their deadlines; two callbacks with the   *)
(* same deadline run in either order.                                      *)
(***************************************************************************)
Tick(late) ==
    /\ isInitialized
    /\ tickDue <= clearDue
    /\ InRegion(tickDue)
    /\ tickDue + late <= Horizon
    /\ late = 0 \/ lateCount < MaxLate
    /\ lateCount' = IF late = 0 THEN lateCount ELSE lateCount + 1
    /\ updateClock(tickDue + late, audioPlayed, playsSinceClear)
    /\ tickDue' = tickDue + UPDATE_INTERVAL
    /\ UNCHANGED <<csvFile, csvDataRaw, isInitialized, clearDue, watch, apiVars>>

(***************************************************************************)
(* The audio-clear interval fires (startAudioClearInterval's callback).    *)
(***************************************************************************)
AudioClear ==
    /\ isInitialized
    /\ clearDue <= tickDue
    /\ InRegion(tickDue)
    /\ clearDue <= Horizon
    /\ audioPlayed' = clearAudioPlayed(audioPlayed)
    /\ playsSinceClear' = NoPlays
    /\ clearDue' = clearDue + AUDIO_CLEAR_INTERVAL
    /\ lastOp' = "clear"
    /\ UNCHANGED <<now, csvFile, csvDataRaw, isInitialized, tickDue, currentDateKey,
                   todayPrayerTimes, nextPrayer, nextTimeMs, currentPrayer, timerText,
                   lastPlayed, lateCount, watch, playsToday, playsYesterday, apiVars>>

(***************************************************************************)
(* A quiet stretch: the ticks and the audio clears that are due between    *)
(* the regions of two events, taken in one step.  No skipped tick is due   *)
(* within NearMs of an event, so each leaves the state as it found it; the *)
(* last tick of the stretch is run in full.                                *)
(***************************************************************************)
QuietRun ==
    /\ isInitialized
    /\ ~InRegion(tickDue)
    /\ QuietLanding(tickDue) <= Horizon
    /\ LET t == QuietLanding(tickDue)
           cleared == clearDue <= t
           n == IF cleared THEN (t - clearDue) \div AUDIO_CLEAR_INTERVAL + 1 ELSE 0
       IN /\ clearDue' = clearDue + n * AUDIO_CLEAR_INTERVAL
          /\ tickDue' = t + UPDATE_INTERVAL
          /\ updateClock(t, IF cleared THEN clearAudioPlayed(audioPlayed) ELSE audioPlayed,
                            IF cleared THEN NoPlays ELSE playsSinceClear)
    /\ UNCHANGED <<csvFile, csvDataRaw, isInitialized, lateCount, watch, apiVars>>

Next ==
    \/ AppInit
    \/ \E late \in Lateness : Tick(late)
    \/ AudioClear
    \/ QuietRun

Spec == Init /\ [][Next]_vars

(***************************************************************************)
(* The API variant (src/unnamed/part_000, class PrayerTimeApp): the month  *)
(* of a zone is fetched from the remote, kept in state.monthlyPrayerData   *)
(* and cached in localStorage; the day's schedule is read from the month.  *)
(* The run covers the last seconds of a day and the first minutes of the   *)
(* next one; the model's calendar has day 0 and day 1 in one month and     *)
(* day 2 and day 3 in the next.                                            *)
(***************************************************************************)
\* the run ends ApiMinutes whole minutes after midnight
ApiMinutes == 1
\* the user makes at most MaxUserActions selections
MaxUserActions == 1

Zones == {"JHR04", "WLY01"}
DefaultZone == "JHR04"

\* formatDateForApi: the "dd-Mon-yyyy" key of the date; the day number stands for it
formatDateForApi(t) == DayOf(t)
\* year and month (getFullYear, getMonth() + 1) of the date
YearMonth(t) == IF DayOf(t) < 2 THEN "2024_1" ELSE "2024_2"
\* the key of state.monthlyPrayerData, and the key of localStorage
MonthKey(zone, t) == zone \o "_" \o YearMonth(t)
CacheKey(zone, t) == "prayer_times_" \o MonthKey(zone, t)
MonthKeys == {z \o "_" \o ym : z \in Zones, ym \in {"2024_1", "2024_2"}}

\* one element of data.prayerTime
ApiDayData(fajr, syuruk, dhuhr, asr, maghrib, isha) ==
    [fajr |-> fajr, syuruk |-> syuruk, dhuhr |-> dhuhr, asr |-> asr,
     maghrib |-> maghrib, isha |-> isha]

JhrDay == ApiDayData(TS(5, 59, "AM"), TS(7, 10, "AM"), TS(1, 5, "PM"), TS(4, 20, "PM"),
                     TS(7, 10, "PM"), TS(8, 20, "PM"))
JhrDay2 == ApiDayData(TS(6, 0, "AM"), TS(7, 11, "AM"), TS(1, 5, "PM"), TS(4, 21, "PM"),
                      TS(7, 9, "PM"), TS(8, 19, "PM"))
WlyDay == ApiDayData(TS(6, 5, "AM"), TS(7, 16, "AM"), TS(1, 11, "PM"), TS(4, 26, "PM"),
                     TS(7, 16, "PM"), TS(8, 26, "PM"))
\* a day whose fajr is not in the 12-hour format: "06:06" without AM or PM
WlyDay24 == ApiDayData(TS(6, 6, ""), TS(7, 17, "AM"), TS(1, 11, "PM"), TS(4, 27, "PM"),
                       TS(7, 15, "PM"), TS(8, 25, "PM"))

\* What the remote serves for a month key: the days by date.  WLY01 has a
\* malformed day 1 and no row for day 2.
RemoteData(key) ==
    CASE key = "JHR04_2024_1" -> (0 :> JhrDay @@ 1 :> JhrDay2)
      [] key = "JHR04_2024_2" -> (2 :> JhrDay @@ 3 :> JhrDay2)
      [] key = "WLY01_2024_1" -> (0 :> WlyDay @@ 1 :> WlyDay24)
      [] key = "WLY01_2024_2" -> (3 :> WlyDay)

\* JSON.stringify and JSON.parse of a month of data: the text is kept as
\* the value it denotes
JSONstringify(value) == [json |-> value]
JSONparse(text) == text.json

\* the entry of an object for a key, once set
Put(obj, k, v) == [x \in DOMAIN obj \cup {k} |-> IF x = k THEN v ELSE obj[x]]

\* the 24-hour "HH:mm" text of the instant 10 minutes before hour:minute
ImsakStr(hour, minute) ==
    LET total == (hour * 60 + minute - RECITATION_OFFSET_MIN + 24 * 60) % (24 * 60)
    IN TS(total \div 60, total % 60, "")

\* the object that loadPrayerTimesForDate assigns to state.todayPrayerTimes
\* (fixTimeFormat returns its argument)
TodayOf(dayData) ==
    [n \in DisplaySet |->
        CASE n = "Subuh" -> dayData.fajr
          [] n = "Syuruk" -> dayData.syuruk
          [] n = "Zohor" -> dayData.dhuhr
          [] n = "Asar" -> dayData.asr
          [] n = "Maghrib" -> dayData.maghrib
          [] n = "Isyak" -> dayData.isha]

\* loadPrayerTimesForDate once the day is found: todayPrayerTimes is
\* assigned first, then parseTime of Subuh may throw, then Imsak and
\* currentDateKey are set
LoadDay(dayData, date, key) ==
    LET loaded == TodayOf(dayData)
        fajrTime == parseTime(loaded["Subuh"])
    IN IF ~fajrTime.ok
       THEN [ok |-> FALSE, threw |-> TRUE, fetch |-> FALSE, times |-> loaded, key |-> key]
       ELSE [ok |-> TRUE, threw |-> FALSE, fetch |-> FALSE,
             times |-> Put(loaded, "Imsak", ImsakStr(fajrTime.hour, fajrTime.minute)),
             key |-> formatDateForApi(date)]

\* loadPrayerTimesForDate of the API variant for the current zone: the
\* fields it leaves in state, the value it returns, whether it throws, and
\* whether it starts a fetchPrayerData of its own (month not in memory)
loadPrayerTimesForDateApi_nocheck(monthly, zone, date, times, key) ==
    IF MonthKey(zone, date) \notin DOMAIN monthly
    THEN [ok |-> FALSE, threw |-> FALSE, fetch |-> TRUE, times |-> times, key |-> key]
    ELSE IF formatDateForApi(date) \notin DOMAIN monthly[MonthKey(zone, date)]
         THEN [ok |-> FALSE, threw |-> TRUE, fetch |-> FALSE, times |-> times, key |-> key]
         ELSE LoadDay(monthly[MonthKey(zone, date)][formatDateForApi(date)], date, key)
loadPrayerTimesForDateApi(monthly, zone, date, times, key) ==
    IF MonthKey(zone, date) \notin DOMAIN monthly
    THEN [ok |-> FALSE, threw |-> FALSE, fetch |-> TRUE, times |-> times, key |-> key]
    ELSE IF formatDateForApi(date) \notin DOMAIN monthly[MonthKey(zone, date)]
         THEN [ok |-> FALSE, threw |-> FALSE, fetch |-> FALSE, times |-> times, key |-> key]
         ELSE LoadDay(monthly[MonthKey(zone, date)][formatDateForApi(date)], date, key)

\* fetchPrayerData up to its first await: a month found in localStorage is
\* parsed into state.monthlyPrayerData and no request is sent
CacheHit(storage, zone, date) == CacheKey(zone, date) \in DOMAIN storage
FromCache(monthly, storage, zone, date) ==
    Put(monthly, MonthKey(zone, date), JSONparse(storage[CacheKey(zone, date)]))

\* a remote request: the zone and the date (hence year and month) it was
\* sent for, and what waits for it: "init" (handleZoneChange awaited by
\* init), "zoneChange" (any other handleZoneChange) or "reload" (the fetch
\* that loadPrayerTimesForDate starts itself)
\* Of the instant a request was sent at, only the date is read afterwards.
Request(zone, date, cont) ==
    [zone |-> zone, date |-> DayOf(date) * MS_PER_DAY, cont |-> cont]
KeysOf(reqs) == {MonthKey(r.zone, r.date) : r \in reqs}

\* the zone whose month loadPrayerTimesForDate reads: state.currentZone,
\* whatever zone the completed fetch was sent for
LoadZone_issued(issuedFor, current) == issuedFor
LoadZone(issuedFor, current) == current

\* A loadPrayerTimesForDate call together with the fetch-then-load chain it
\* starts when the month is not in memory: on a localStorage hit the chain
\* runs before any other callback; an exception of the chained load is
\* caught by the chain's catch.  reqs is the request the call leaves in
\* flight, threw whether the call itself throws.
LoadOrFetch(monthly, storage, zone, date, times, key) ==
    LET r == loadPrayerTimesForDateApi(monthly, zone, date, times, key)
    IN IF ~r.fetch
       THEN [monthly |-> monthly, times |-> r.times, key |-> r.key, threw |-> r.threw,
             reqs |-> {}]
       ELSE IF CacheHit(storage, zone, date)
       THEN LET m2 == FromCache(monthly, storage, zone, date)
                r2 == loadPrayerTimesForDateApi(m2, zone, date, times, key)
            IN [monthly |-> m2, times |-> r2.times, key |-> r2.key, threw |-> FALSE,
                reqs |-> {}]
       ELSE [monthly |-> monthly, times |-> times, key |-> key, threw |-> FALSE,
             reqs |-> {Request(zone, date, "reload")}]

\* handleZoneChange(zone) called at instant date with state.currentZone =
\* current: on a localStorage hit it runs to its end (an exception of the
\* load is caught and reported); otherwise it leaves its request in flight
handleZoneChange(monthly, storage, zone, current, date, times, key, cont) ==
    IF CacheHit(storage, zone, date)
    THEN [LoadOrFetch(FromCache(monthly, storage, zone, date), storage, current, date,
                      times, key) EXCEPT !.threw = FALSE]
    ELSE [monthly |-> monthly, times |-> times, key |-> key, threw |-> FALSE,
          reqs |-> {Request(zone, date, cont)}]

\* what a failed fetchPrayerData leaves of state.monthlyPrayerData: the
\* catch only rethrows
AfterFetchFailure_evict(monthly, key) == [k \in DOMAIN monthly \ {key} |-> monthly[k]]
AfterFetchFailure_poison(monthly, key) == Put(monthly, key, NoEntries)
AfterFetchFailure(monthly, key) == monthly

(***************************************************************************)
(* The state after construction of the API page: what localStorage holds   *)
(* from earlier visits, whether it is full, whether the remote answers,    *)
(* and the instant at which the page is started: two seconds before the    *)
(* midnight that ends day 0 (same month) or day 1 (a new month follows).   *)
(***************************************************************************)
ApiStartTimes == {(d + 1) * MS_PER_DAY - 2 * UPDATE_INTERVAL : d \in {0, 1}}
\* the end of the run that instant t belongs to
ApiHorizon(t) == ((t + MS_PER_DAY \div 2) \div MS_PER_DAY) * MS_PER_DAY
                     + ApiMinutes * MS_PER_MINUTE

ApiStores ==
    {NoEntries,
     "selected_zone" :> "WLY01",
     ("selected_zone" :> "JHR04")
         @@ ("prayer_times_JHR04_2024_1" :> JSONstringify(RemoteData("JHR04_2024_1")))}

\* the fields that only the CSV page uses
CsvUnused ==
    /\ csvFile = "full"
    /\ csvDataRaw = NoCsv
    /\ tickDue = 0
    /\ lateCount = 0
    /\ watch = "Subuh"
    /\ playsSinceClear = NoPlays
    /\ playsToday = NoCues
    /\ playsYesterday = NoCues
    /\ LifeUnused
    /\ PureUnused

csvOnly == <<csvFile, csvDataRaw, tickDue, lateCount, watch, playsSinceClear, playsToday,
             playsYesterday, lifeVars, pureVars>>

ApiInit ==
    /\ variant = "api"
    /\ now \in ApiStartTimes
    /\ localStorage \in ApiStores
    /\ storageFull \in BOOLEAN
    /\ remoteUp \in BOOLEAN
    /\ currentZone = DefaultZone
    /\ monthlyPrayerData = NoEntries
    /\ inFlight = {}
    /\ detecting = FALSE
    /\ userActions = 0
    /\ tickSteps = {}
    /\ isInitialized = FALSE
    /\ clearDue = 0
    /\ currentDateKey = NoDateKey
    /\ todayPrayerTimes = EmptyObj
    /\ nextPrayer = NULL
    /\ nextTimeMs = NullMs
    /\ audioPlayed = {}
    /\ currentPrayer = NULL
    /\ timerText = InitialText
    /\ lastOp = "constructed"
    /\ lastPlayed = {}
    /\ CsvUnused

\* the resolver and cue fields, which only a tick changes
resolverVars == <<nextPrayer, nextTimeMs, audioPlayed, currentPrayer, timerText, lastPlayed,
                  tickSteps>>

\* the state that a handleZoneChange or loadPrayerTimesForDate call leaves
Apply(h) ==
    /\ monthlyPrayerData' = h.monthly
    /\ todayPrayerTimes' = h.times
    /\ currentDateKey' = h.key
    /\ inFlight' = inFlight \cup h.reqs

(***************************************************************************)
(* init() of the API page: with a saved zone, handleZoneChange is awaited  *)
(* before the timers are started; without one, detectLocation returns as   *)
(* soon as it has asked for the position.                                  *)
(***************************************************************************)
ApiAppInit ==
    /\ variant = "api"
    /\ lastOp = "constructed"
    /\ IF "selected_zone" \in DOMAIN localStorage
       THEN LET savedZone == localStorage["selected_zone"]
                h == handleZoneChange(monthlyPrayerData, localStorage, savedZone, savedZone,
                                      now, todayPrayerTimes, currentDateKey, "init")
            IN /\ currentZone' = savedZone
               /\ Apply(h)
               /\ isInitialized' = (h.reqs = {})
               /\ UNCHANGED detecting
       ELSE /\ detecting' = TRUE
            /\ isInitialized' = TRUE
            /\ UNCHANGED <<currentZone, monthlyPrayerData, todayPrayerTimes, currentDateKey,
                           inFlight>>
    /\ lastOp' = "init"
    /\ UNCHANGED <<now, clearDue, localStorage, storageFull, remoteUp, userActions, variant,
                   resolverVars, csvOnly>>

(***************************************************************************)
(* The user picks a zone in the selector (setupZoneSelector's handler).    *)
(***************************************************************************)
SelectZone(value) ==
    /\ variant = "api"
    /\ lastOp # "constructed"
    /\ userActions < MaxUserActions
    /\ LET stored == Put(localStorage, "selected_zone", value)
           h == handleZoneChange(monthlyPrayerData, stored, value, value, now,
                                 todayPrayerTimes, currentDateKey, "zoneChange")
       IN /\ currentZone' = value
          /\ localStorage' = stored
          /\ Apply(h)
    /\ userActions' = userActions + 1
    /\ lastOp' = "select"
    /\ UNCHANGED <<now, isInitialized, clearDue, storageFull, remoteUp, detecting, variant,
                   resolverVars, csvOnly>>

\* the user picks "detect-location": detectLocation asks for the position
SelectDetect ==
    /\ variant = "api"
    /\ lastOp # "constructed"
    /\ userActions < MaxUserActions
    /\ ~detecting
    /\ detecting' = TRUE
    /\ userActions' = userActions + 1
    /\ lastOp' = "detect"
    /\ UNCHANGED <<now, isInitialized, clearDue, currentZone, monthlyPrayerData, localStorage,
                   todayPrayerTimes, currentDateKey, inFlight, storageFull, remoteUp,
                   variant, resolverVars, csvOnly>>

(***************************************************************************)
(* detectLocation's result arrives: the GPS endpoint names a zone, or the  *)
(* position or the endpoint fails and fallbackToDefaultZone runs.          *)
(***************************************************************************)
DetectDone(result) ==
    /\ variant = "api"
    /\ detecting
    /\ LET zone == IF result = "error" THEN DefaultZone ELSE result
           stored == IF result = "error" THEN localStorage
                     ELSE Put(localStorage, "selected_zone", zone)
           h == handleZoneChange(monthlyPrayerData, stored, zone, zone, now,
                                 todayPrayerTimes, currentDateKey, "zoneChange")
       IN /\ currentZone' = zone
          /\ localStorage' = stored
          /\ Apply(h)
    /\ detecting' = FALSE
    /\ lastOp' = "detected"
    /\ UNCHANGED <<now, isInitialized, clearDue, storageFull, remoteUp, userActions, variant,
                   resolverVars, csvOnly>>

(***************************************************************************)
(* A remote request completes.  When the remote answers, fetchPrayerData   *)
(* stores the month in memory and, unless the quota is exceeded, in        *)
(* localStorage; then the waiting handleZoneChange (or the chain of        *)
(* loadPrayerTimesForDate) loads the day of the request for the zone that  *)
(* is current now.  When the remote fails (HTTP error, network error, or   *)
(* an answer in another format) fetchPrayerData throws and the waiting     *)
(* code only reports.  An init that was waiting goes on to start the       *)
(* timers either way.                                                      *)
(***************************************************************************)
FailureKinds == {"http", "network", "format"}

FetchDone(req) ==
    /\ variant = "api"
    /\ req \in inFlight
    /\ IF remoteUp
       THEN LET mk == MonthKey(req.zone, req.date)
                m1 == Put(monthlyPrayerData, mk, RemoteData(mk))
                s1 == IF storageFull THEN localStorage
                      ELSE Put(localStorage, CacheKey(req.zone, req.date),
                               JSONstringify(RemoteData(mk)))
                l == LoadOrFetch(m1, s1, LoadZone(req.zone, currentZone), req.date,
                                 todayPrayerTimes, currentDateKey)
            IN /\ monthlyPrayerData' = l.monthly
               /\ localStorage' = s1
               /\ todayPrayerTimes' = l.times
               /\ currentDateKey' = l.key
               /\ inFlight' = (inFlight \ {req}) \cup l.reqs
               /\ lastOp' = "fetchOk"
       ELSE \E kind \in FailureKinds :
               /\ monthlyPrayerData' =
                      AfterFetchFailure(monthlyPrayerData, MonthKey(req.zone, req.date))
               /\ inFlight' = inFlight \ {req}
               /\ lastOp' = "fetchFailed"
               /\ UNCHANGED <<localStorage, todayPrayerTimes, currentDateKey>>
    /\ isInitialized' = (isInitialized \/ req.cont = "init")
    /\ UNCHANGED <<now, clearDue, currentZone, storageFull, remoteUp, detecting, userActions,
                   variant, resolverVars, csvOnly>>

\* the remote goes down or comes back
RemoteChange ==
    /\ variant = "api"
    /\ remoteUp' = ~remoteUp
    /\ UNCHANGED <<now, isInitialized, clearDue, currentZone, monthlyPrayerData, localStorage,
                   todayPrayerTimes, currentDateKey, inFlight, storageFull, detecting,
                   userActions, variant, lastOp, resolverVars, csvOnly>>

(***************************************************************************)
(* Time.  The clock interval fires every UPDATE_INTERVAL, on the whole     *)
(* second.  The ticks of seconds 2 to 58 of a minute make no date check,   *)
(* and no entry or recitation time of the served schedules is near the     *)
(* run, so they change only the displayed time and countdown: the model    *)
(* goes from second 1 to the tick of second 59 in one step.                *)
(***************************************************************************)
NextInstant(t) ==
    IF getSeconds(t) >= 1 /\ getSeconds(t) < 58
    THEN (t \div MS_PER_MINUTE) * MS_PER_MINUTE + 59 * UPDATE_INTERVAL
    ELSE t + UPDATE_INTERVAL

\* the steps of updateClock after the date check
TickSteps == {"display", "highlight", "timer", "audio"}

\* checkDateChange of the API variant at instant t: nothing, or
\* handleZoneChange (month not in memory: it goes on after the tick), or
\* loadPrayerTimesForDate (its exception leaves updateClock)
NoChange == [monthly |-> monthlyPrayerData, times |-> todayPrayerTimes,
             key |-> currentDateKey, threw |-> FALSE, reqs |-> {}]
checkDateChangeApi_noretry(t) == NoChange
checkDateChangeApi_samemonth(t) ==
    IF formatDateForApi(t) = currentDateKey
           \/ MonthKey(currentZone, t) \notin DOMAIN monthlyPrayerData
    THEN NoChange
    ELSE LoadOrFetch(monthlyPrayerData, localStorage, currentZone, t,
                     todayPrayerTimes, currentDateKey)
checkDateChangeApi(t) ==
    IF formatDateForApi(t) = currentDateKey THEN NoChange
    ELSE IF MonthKey(currentZone, t) \notin DOMAIN monthlyPrayerData
         THEN handleZoneChange(monthlyPrayerData, localStorage, currentZone, currentZone, t,
                               todayPrayerTimes, currentDateKey, "zoneChange")
         ELSE LoadOrFetch(monthlyPrayerData, localStorage, currentZone, t,
                          todayPrayerTimes, currentDateKey)

\* updateClock of the API variant at instant t
updateClockApi(t) ==
    LET dc == IF getSeconds(t) = 0 THEN checkDateChangeApi(t) ELSE NoChange
        deferred == getSeconds(t) = 0 /\ formatDateForApi(t) # currentDateKey
                        /\ MonthKey(currentZone, t) \notin DOMAIN monthlyPrayerData
        \* the schedule that the rest of the tick reads
        times == IF deferred THEN todayPrayerTimes ELSE dc.times
        nx == updateNextPrayerTimer(times, t, nextPrayer, nextTimeMs)
        plays == checkPrayerAudio(nx.nextPrayer, nx.nextTimeMs, t, audioPlayed)
    IN /\ now' = t
       /\ Apply(dc)
       /\ lastOp' = "tick"
       /\ IF dc.threw
          THEN /\ tickSteps' = {}
               /\ UNCHANGED <<nextPrayer, nextTimeMs, audioPlayed, currentPrayer, timerText,
                              lastPlayed>>
          ELSE /\ tickSteps' = TickSteps
               /\ currentPrayer' = IF hasPrayerTimes(times) THEN ResolveCurrent(times, t)
                                   ELSE currentPrayer
               /\ nextPrayer' = nx.nextPrayer
               /\ nextTimeMs' = nx.nextTimeMs
               /\ timerText' = nx.text
               /\ audioPlayed' = audioPlayed \cup plays
               /\ lastPlayed' = plays

\* the clock interval fires
ApiTick ==
    /\ variant = "api"
    /\ isInitialized
    /\ NextInstant(now) <= ApiHorizon(now)
    /\ updateClockApi(NextInstant(now))
    /\ UNCHANGED <<isInitialized, clearDue, currentZone, localStorage, storageFull, remoteUp,
                   detecting, userActions, variant, csvOnly>>

\* a second passes while init is still waiting for its fetch: no timer runs
ApiPass ==
    /\ variant = "api"
    /\ ~isInitialized
    /\ lastOp # "constructed"
    /\ NextInstant(now) <= ApiHorizon(now)
    /\ now' = NextInstant(now)
    /\ UNCHANGED <<isInitialized, clearDue, currentZone, monthlyPrayerData, localStorage,
                   todayPrayerTimes, currentDateKey, inFlight, storageFull, remoteUp,
                   detecting, userActions, variant, lastOp, resolverVars, csvOnly>>

(***************************************************************************)
(* The per-day page (src/unnamed/part_000:1-90): DOMContentLoaded shows    *)
(* the day's timings from localStorage or fetches the month calendar and   *)
(* stores the day; updateClock reloads the page when the date changes.     *)
(* todayPrayerTimes stands for the timings shown in #prayer-times (empty   *)
(* when the list is empty or replaced by a message), isInitialized for the *)
(* running interval.                                                       *)
(***************************************************************************)
\* the localStorage key of a date, and the city the calendar is asked for
DateKeyText(key) == "2024-1-" \o ToString(key + 1)
City == "Segamat"

\* data.data of the calendar: the remote has no entry for day 2
CalendarHas(day) == day # 2
Timings(day) == IF day % 2 = 0 THEN JhrDay ELSE JhrDay2

DayStores == {NoEntries} \cup
    {DateKeyText(d) :> JSONstringify([data |-> Timings(d)]) : d \in {0, 1}}

DayInit ==
    /\ variant = "perday"
    /\ now \in ApiStartTimes
    /\ localStorage \in DayStores
    /\ storageFull \in BOOLEAN
    /\ remoteUp \in BOOLEAN
    /\ currentZone = DefaultZone
    /\ monthlyPrayerData = NoEntries
    /\ inFlight = {}
    /\ detecting = FALSE
    /\ userActions = 0
    /\ tickSteps = {}
    /\ isInitialized = FALSE
    /\ clearDue = 0
    /\ currentDateKey = NoDateKey
    /\ todayPrayerTimes = EmptyObj
    /\ nextPrayer = NULL
    /\ nextTimeMs = NullMs
    /\ audioPlayed = {}
    /\ currentPrayer = NULL
    /\ timerText = InitialText
    /\ lastOp = "constructed"
    /\ lastPlayed = {}
    /\ CsvUnused

\* the fields of the class that the per-day page does not have
classOnly == <<currentZone, monthlyPrayerData, detecting, userActions, clearDue, nextPrayer,
               nextTimeMs, audioPlayed, currentPrayer, timerText, lastPlayed, tickSteps>>

\* the DOMContentLoaded handler at instant t; the requests of an earlier
\* page are gone with it
PageLoaded_stale(t) ==
    /\ currentDateKey' = currentDateKey
    /\ IF DateKeyText(formatDate(t)) \in DOMAIN localStorage
       THEN /\ todayPrayerTimes' = JSONparse(localStorage[DateKeyText(formatDate(t))]).data
            /\ inFlight' = {}
       ELSE /\ todayPrayerTimes' = EmptyObj
            /\ inFlight' = {Request(City, t, "perday")}
    /\ isInitialized' = TRUE
PageLoaded(t) ==
    /\ currentDateKey' = formatDate(t)
    /\ IF DateKeyText(formatDate(t)) \in DOMAIN localStorage
       THEN /\ todayPrayerTimes' = JSONparse(localStorage[DateKeyText(formatDate(t))]).data
            /\ inFlight' = {}
       ELSE /\ todayPrayerTimes' = EmptyObj
            /\ inFlight' = {Request(City, t, "perday")}
    /\ isInitialized' = TRUE

DayPageLoad ==
    /\ variant = "perday"
    /\ lastOp = "constructed"
    /\ PageLoaded(now)
    /\ lastOp' = "load"
    /\ UNCHANGED <<now, localStorage, storageFull, remoteUp, variant, classOnly, csvOnly>>

\* updateClock of the per-day page: location.reload() on a new date
DayTick ==
    /\ variant = "perday"
    /\ isInitialized
    /\ NextInstant(now) <= ApiHorizon(now)
    /\ now' = NextInstant(now)
    /\ IF formatDate(NextInstant(now)) # currentDateKey
       THEN /\ PageLoaded(NextInstant(now))
            /\ lastOp' = "reload"
       ELSE /\ lastOp' = "tick"
            /\ UNCHANGED <<currentDateKey, todayPrayerTimes, inFlight, isInitialized>>
    /\ UNCHANGED <<localStorage, storageFull, remoteUp, variant, classOnly, csvOnly>>

\* the calendar request of fetchPrayerTimes completes: the day is stored
\* and shown, or it is absent, or the request (or the setItem) fails
DayFetchDone(req) ==
    /\ variant = "perday"
    /\ req \in inFlight
    /\ inFlight' = inFlight \ {req}
    /\ IF remoteUp /\ CalendarHas(DayOf(req.date)) /\ ~storageFull
       THEN /\ localStorage' = Put(localStorage, DateKeyText(formatDate(req.date)),
                                   JSONstringify([data |-> Timings(DayOf(req.date))]))
            /\ todayPrayerTimes' = Timings(DayOf(req.date))
            /\ lastOp' = "fetchOk"
       ELSE /\ localStorage' = localStorage
            /\ todayPrayerTimes' = EmptyObj
            /\ lastOp' = IF remoteUp /\ CalendarHas(DayOf(req.date)) THEN "fetchFailed"
                         ELSE IF remoteUp THEN "absent" ELSE "fetchFailed"
    /\ UNCHANGED <<now, currentDateKey, isInitialized, storageFull, remoteUp, variant,
                   classOnly, csvOnly>>

\* the remote goes down or comes back
DayRemoteChange ==
    /\ variant = "perday"
    /\ remoteUp' = ~remoteUp
    /\ UNCHANGED <<now, currentDateKey, todayPrayerTimes, inFlight, isInitialized,
                   localStorage, storageFull, lastOp, variant, classOnly, csvOnly>>

ApiNext ==
    \/ ApiAppInit
    \/ \E value \in Zones : SelectZone(value)
    \/ SelectDetect
    \/ \E result \in Zones \cup {"error"} : DetectDone(result)
    \/ \E req \in inFlight : FetchDone(req)
    \/ RemoteChange
    \/ ApiTick
    \/ ApiPass
    \/ DayPageLoad
    \/ DayTick
    \/ \E req \in inFlight : DayFetchDone(req)
    \/ DayRemoteChange

\* the pages of part_000
ApiSpec == (ApiInit \/ DayInit) /\ [][ApiNext]_vars

\* The API page with its scheduling: the clock interval keeps firing and a
\* request that was sent settles (fetch resolves or rejects).  The fairness
\* conditions name the steps by what identifies them: a step of [Next]_vars
\* is a Ticking step exactly when it is an ApiTick step, and a Settling step
\* exactly when it is a FetchDone step, and they are enabled in the same
\* states; a tick changes now and a settled request changes inFlight.
Ticking ==
    /\ variant = "api"
    /\ isInitialized
    /\ NextInstant(now) <= ApiHorizon(now)
    /\ now' = NextInstant(now)
    /\ lastOp' = "tick"
Settling ==
    /\ variant = "api"
    /\ \E req \in inFlight :
           \E more \in {{}, {Request(currentZone, req.date, "reload")}} :
               inFlight' = (inFlight \ {req}) \cup more
ApiFairSpec ==
    /\ ApiSpec
    /\ WF_now(Ticking)
    /\ WF_vars(ApiPass)
    /\ WF_inFlight(Settling)

(***************************************************************************)
(* The life cycle of the CSV page (src/script.js): init() runs that wait   *)
(* for prayer_times.csv, the retry after a failed init, restart(),         *)
(* destroy() and forceNextPrayer(), with the interval timers and the       *)
(* pending timeouts as the browser keeps them.  Time advances in whole     *)
(* seconds; an active clock interval ticks at each of them.                *)
(***************************************************************************)
\* at most MaxCalls calls of restart, destroy, forceNextPrayer and changes of the file
MaxCalls == 1
\* and they happen in the first CallSeconds seconds of the run
CallSeconds == 4
\* at most MaxFailures init() runs fail
MaxFailures == 2
\* the run covers LifeSeconds seconds
LifeSeconds == 64

\* the delays of the two setTimeout calls
RETRY_DELAY == 5000
RESTART_DELAY == 1000

LifeStart == (5 * 60 + 48) * MS_PER_MINUTE + 57 * 1000
LifeEnd == LifeStart + LifeSeconds * 1000

\* what is served as prayer_times.csv: a file of the schedule, no file
\* (HTTP 404), an empty file, or a file of the header line only
LifeFiles == {"full", "bad", "sparse", "missing", "empty", "headerOnly"}
Loadable(file) == file \in {"full", "bad", "sparse"}

MayCall == calls < MaxCalls /\ now < LifeStart + CallSeconds * 1000

lifeFixed == <<variant, tickDue, clearDue, lateCount, watch, apiOnly, pureVars>>
clockFields == <<currentPrayer, nextPrayer, nextTimeMs, timerText, audioPlayed, lastPlayed,
                 playsSinceClear, playsToday, playsYesterday>>

LifeInit ==
    /\ variant = "life"
    /\ now = LifeStart
    /\ csvFile \in LifeFiles
    /\ watch = "Subuh"
    /\ csvDataRaw = NoCsv
    /\ isInitialized = FALSE
    /\ tickDue = 0
    /\ clearDue = 0
    /\ currentDateKey = NoDateKey
    /\ todayPrayerTimes = EmptyObj
    /\ nextPrayer = NULL
    /\ nextTimeMs = NullMs
    /\ audioPlayed = {}
    /\ currentPrayer = NULL
    /\ timerText = InitialText
    /\ lastOp = "constructed"
    /\ lastPlayed = {}
    /\ playsSinceClear = NoPlays
    /\ lateCount = 0
    /\ playsToday = NoCues
    /\ playsYesterday = NoCues
    /\ currentZone = "JHR04"
    /\ monthlyPrayerData = NoEntries
    /\ localStorage = NoEntries
    /\ storageFull = FALSE
    /\ remoteUp = TRUE
    /\ inFlight = {}
    /\ detecting = FALSE
    /\ userActions = 0
    /\ tickSteps = {}
    /\ LifeUnused
    /\ PureUnused

\* a handle that no active timer and no stored field holds
Max(S) == CHOOSE x \in S : \A y \in S : y <= x
FreshHandle(used) == Max(used \cup {0}) + 1
HandlesInUse ==
    {a.id : a \in clockTimers \cup audioTimers} \cup {clockInterval, audioInterval}

\* setInterval after the clearInterval of the stored handle: the timers
\* that are active afterwards (handle 0 is null: nothing is cleared)
startTimer_noclear(active, stored, new) == active \cup {new}
startTimer(active, stored, new) == {a \in active : a.id # stored} \cup {new}

\* clearInterval of the stored handle
stopTimer(active, stored) == {a \in active : a.id # stored}

\* the instant at which each recorded cue file was added to audioPlayed
AddedAt(played, t) ==
    [f \in played |-> IF f \in audioPlayed /\ f \in DOMAIN addedAt THEN addedAt[f] ELSE t]

\* the first call of init()
LifeCall ==
    /\ variant = "life"
    /\ lastOp = "constructed"
    /\ awaiting' = awaiting + 1
    /\ lastOp' = "initCalled"
    /\ destroyed' = FALSE
    /\ UNCHANGED <<now, csvFile, csvDataRaw, isInitialized, currentDateKey, todayPrayerTimes,
                   clockFields, lifeFixed, clockTimers, clockInterval, audioTimers,
                   audioInterval, timeouts, calls, failures, addedAt>>

\* setTimeout(() => this.init(), 5000) of the catch block of init(), at instant t
retryTimeout_none(pending, t) == pending
retryTimeout(pending, t) ==
    pending \cup {[id |-> FreshHandle({x.id : x \in pending}),
                   due |-> t + RETRY_DELAY, kind |-> "retry"]}

\* what loadCSVData leaves in state.csvDataRaw when it throws
FailedFetch(file, raw) ==
    CASE file = "missing" -> raw
      [] file = "empty" -> NoCsv
      [] OTHER -> file

(***************************************************************************)
(* The fetch of an init() run settles and the run goes on to its end.      *)
(* With a schedule file: loadCSVData, startClockUpdates (whose updateClock *)
(* call acts only if an earlier run has set isInitialized),                *)
(* startAudioClearInterval, isInitialized = true.  Otherwise loadCSVData   *)
(* throws and the catch block schedules the next init().                   *)
(***************************************************************************)
LifeInitDone ==
    /\ variant = "life"
    /\ awaiting > 0
    /\ awaiting' = awaiting - 1
    /\ IF Loadable(csvFile)
       THEN LET r == loadCSVData(csvFile, now, todayPrayerTimes, currentDateKey)
                clock == FreshHandle(HandlesInUse)
                audio == clock + 1
            IN /\ csvDataRaw' = csvFile
               /\ clockTimers' = startTimer(clockTimers, clockInterval,
                                             [id |-> clock, due |-> now + UPDATE_INTERVAL])
               /\ clockInterval' = clock
               /\ IF isInitialized
                  THEN updateClockOn(csvFile, r.times, r.key, now, audioPlayed,
                                     playsSinceClear)
                  ELSE /\ todayPrayerTimes' = r.times
                       /\ currentDateKey' = r.key
                       /\ UNCHANGED <<now, clockFields>>
               /\ audioTimers' = startTimer(audioTimers, audioInterval,
                                             [id |-> audio, due |-> now + AUDIO_CLEAR_INTERVAL])
               /\ audioInterval' = audio
               /\ isInitialized' = TRUE
               /\ addedAt' = AddedAt(audioPlayed', now)
               /\ lastOp' = "init"
               /\ UNCHANGED <<timeouts, failures>>
       ELSE /\ failures < MaxFailures
            /\ failures' = failures + 1
            /\ csvDataRaw' = FailedFetch(csvFile, csvDataRaw)
            /\ timeouts' = retryTimeout(timeouts, now)
            /\ lastOp' = "initFailed"
            /\ UNCHANGED <<now, isInitialized, currentDateKey, todayPrayerTimes, clockFields,
                           clockTimers, clockInterval, audioTimers, audioInterval, addedAt>>
    /\ UNCHANGED <<csvFile, lifeFixed, calls, destroyed>>

\* a pending timeout is due: its callback calls init()
LifeTimeout ==
    /\ variant = "life"
    /\ \E to \in timeouts :
           /\ to.due <= now
           /\ timeouts' = timeouts \ {to}
           /\ lastOp' = to.kind
    /\ awaiting' = awaiting + 1
    /\ UNCHANGED <<now, csvFile, csvDataRaw, isInitialized, currentDateKey, todayPrayerTimes,
                   clockFields, lifeFixed, clockTimers, clockInterval, audioTimers,
                   audioInterval, calls, failures, addedAt, destroyed>>

\* destroy(): what it leaves of the state
destroy ==
    /\ clockTimers' = stopTimer(clockTimers, clockInterval)
    /\ clockInterval' = 0
    /\ audioTimers' = stopTimer(audioTimers, audioInterval)
    /\ audioInterval' = 0
    /\ audioPlayed' = {}
    /\ playsSinceClear' = NoPlays
    /\ addedAt' = NoEntries
    /\ todayPrayerTimes' = EmptyObj
    /\ csvDataRaw' = NoCsv
    /\ isInitialized' = FALSE
    /\ UNCHANGED <<now, csvFile, currentDateKey, currentPrayer, nextPrayer, nextTimeMs,
                   timerText, lastPlayed, playsToday, playsYesterday, lifeFixed, awaiting,
                   failures>>

\* destroy() on beforeunload of a page that stays (the unload is cancelled)
LifeDestroy ==
    /\ variant = "life"
    /\ MayCall
    /\ calls' = calls + 1
    /\ destroy
    /\ lastOp' = "destroy"
    /\ destroyed' = TRUE
    /\ UNCHANGED timeouts

\* restart(): destroy() and a timeout that calls init()
LifeRestart ==
    /\ variant = "life"
    /\ MayCall
    /\ calls' = calls + 1
    /\ destroy
    /\ timeouts' = timeouts \cup
           {[id |-> FreshHandle({x.id : x \in timeouts}),
             due |-> now + RESTART_DELAY, kind |-> "restart"]}
    /\ lastOp' = "restartCalled"
    /\ destroyed' = FALSE

\* forceNextPrayer(prayerName) at instant t: the fields that
\* updateNextPrayerTimer leaves, or those it found when it returns early
forceNextPrayer(prayerName, times, t, np, nt, text) ==
    LET timeStr == Cell(times, prayerName)
        p == parseTime(timeStr)
    IN IF prayerName \notin NameSet \/ timeStr = NoTime \/ ~p.ok
       THEN [nextPrayer |-> np, nextTimeMs |-> nt, text |-> text]
       ELSE updateNextPrayerTimer(times, t, prayerName, getTimeInMs(t, p.hour, p.minute))

ForcedNames == {"Imsak", "Subuh", "Zohor", "Jumaat"}

LifeForceNext(prayerName) ==
    /\ variant = "life"
    /\ MayCall
    /\ calls' = calls + 1
    /\ LET nx == forceNextPrayer(prayerName, todayPrayerTimes, now, nextPrayer, nextTimeMs,
                                 timerText)
       IN /\ nextPrayer' = nx.nextPrayer
          /\ nextTimeMs' = nx.nextTimeMs
          /\ timerText' = nx.text
    /\ lastOp' = "force " \o prayerName
    /\ UNCHANGED <<now, csvFile, csvDataRaw, isInitialized, currentDateKey, todayPrayerTimes,
                   currentPrayer, audioPlayed, lastPlayed, playsSinceClear, playsToday,
                   playsYesterday, lifeFixed, clockTimers, clockInterval, audioTimers,
                   audioInterval, timeouts, awaiting, failures, addedAt, destroyed>>

\* the file that is served changes: the schedule appears, or it is replaced
\* by one whose first row lies more than a week ahead
NextFiles(file) ==
    IF file = "full" THEN {"sparse"} ELSE IF Loadable(file) THEN {} ELSE {"full"}

LifeFileChange ==
    /\ variant = "life"
    /\ now < LifeStart + CallSeconds * 1000
    /\ csvFile' \in NextFiles(csvFile)
    /\ UNCHANGED <<calls, now, csvDataRaw, isInitialized, currentDateKey, todayPrayerTimes,
                   clockFields, lastOp, lifeFixed, clockTimers, clockInterval, audioTimers,
                   audioInterval, timeouts, awaiting, failures, addedAt, destroyed>>

\* an audio-clear interval is due: audioPlayed.clear()
LifeClear ==
    /\ variant = "life"
    /\ \E a \in audioTimers :
           /\ a.due <= now
           /\ audioTimers' = (audioTimers \ {a}) \cup
                                 {[a EXCEPT !.due = @ + AUDIO_CLEAR_INTERVAL]}
    /\ audioPlayed' = clearAudioPlayed(audioPlayed)
    /\ playsSinceClear' = NoPlays
    /\ addedAt' = NoEntries
    /\ lastOp' = "clear"
    /\ UNCHANGED <<now, csvFile, csvDataRaw, isInitialized, currentDateKey, todayPrayerTimes,
                   currentPrayer, nextPrayer, nextTimeMs, timerText, lastPlayed, playsToday,
                   playsYesterday, lifeFixed, clockTimers, clockInterval, audioInterval,
                   timeouts, awaiting, calls, failures, destroyed>>

(***************************************************************************)
(* A second passes, once the callbacks that are due have run.  Each clock  *)
(* interval that is due calls updateClock, which acts only if              *)
(* isInitialized; a second call at the same instant finds the state the    *)
(* first one left and changes nothing.                                     *)
(***************************************************************************)
LifePass ==
    /\ variant = "life"
    /\ now + UPDATE_INTERVAL <= LifeEnd
    /\ \A to \in timeouts : to.due > now
    /\ \A a \in audioTimers : a.due > now
    /\ LET t == now + UPDATE_INTERVAL
           due == {a \in clockTimers : a.due <= t}
       IN /\ clockTimers' = (clockTimers \ due) \cup
                                {[a EXCEPT !.due = @ + UPDATE_INTERVAL] : a \in due}
          /\ IF due # {} /\ isInitialized
             THEN updateClock(t, audioPlayed, playsSinceClear)
             ELSE /\ now' = t
                  /\ lastOp' = "wait"
                  /\ UNCHANGED <<currentDateKey, todayPrayerTimes, clockFields>>
          /\ addedAt' = AddedAt(audioPlayed', t)
    /\ UNCHANGED <<csvFile, csvDataRaw, isInitialized, lifeFixed, clockInterval, audioTimers,
                   audioInterval, timeouts, awaiting, calls, failures, destroyed>>

LifeNext ==
    \/ LifeCall
    \/ LifeInitDone
    \/ LifeTimeout
    \/ LifeDestroy
    \/ LifeRestart
    \/ \E prayerName \in ForcedNames : LifeForceNext(prayerName)
    \/ LifeFileChange
    \/ LifeClear
    \/ LifePass

LifeSpec == LifeInit /\ [][LifeNext]_vars

\* Fairness: time passes, a timer or timeout that is due runs its callback,
\* and the fetch of an init() run settles.  Each condition names its step by
\* what identifies it among the steps of LifeNext: only LifePass changes
\* now, only LifeTimeout removes a timeout, only LifeInitDone lowers
\* awaiting, and only LifeClear moves the deadline of an audio-clear timer.
Passing ==
    /\ variant = "life"
    /\ now + UPDATE_INTERVAL <= LifeEnd
    /\ \A to \in timeouts : to.due > now
    /\ \A a \in audioTimers : a.due > now
    /\ now' = now + UPDATE_INTERVAL
Firing ==
    /\ variant = "life"
    /\ \E to \in timeouts : to.due <= now /\ timeouts' = timeouts \ {to}
Completing ==
    /\ variant = "life"
    /\ awaiting > 0
    /\ Loadable(csvFile) \/ failures < MaxFailures
    /\ awaiting' = awaiting - 1
Clearing ==
    /\ variant = "life"
    /\ \E a \in audioTimers :
           /\ a.due <= now
           /\ audioTimers' = (audioTimers \ {a}) \cup
                                 {[a EXCEPT !.due = @ + AUDIO_CLEAR_INTERVAL]}
LifeFairSpec ==
    /\ LifeSpec
    /\ WF_now(Passing)
    /\ WF_timeouts(Firing)
    /\ WF_awaiting(Completing)
    /\ WF_audioTimers(Clearing)

(***************************************************************************)
(* Single calls: a function of the program applied to arguments drawn from *)
(* small sets, with the fields it writes as it found them (before) and as  *)
(* it left them (returned).                                                *)
(***************************************************************************)
\* the dates of the calls are days 0..PureDays
PureDays == 10

\* the "Date Hijri" cell of the row of a date; the file "late" has none
HijriCell(csv, key) == IF csv = "late" THEN "" ELSE "H" \o ToString(key)

\* the three fields loadPrayerTimesForDate writes: todayPrayerTimes,
\* currentDateKey and currentHijriDate (cell || "")
WithHijri(csv, r, hijri) ==
    [ok |-> r.ok, times |-> r.times, key |-> r.key,
     hijri |-> IF r.ok THEN HijriCell(csv, r.key) ELSE hijri]

\* states of the three fields that a run leaves: nothing loaded, a row of
\* "full" loaded, the row of "late" loaded
PriorFields ==
    {[times |-> EmptyObj, key |-> NoDateKey, hijri |-> ""],
     [times |-> FullRow, key |-> 0, hijri |-> HijriCell("full", 0)],
     [times |-> ExampleRow, key |-> 1, hijri |-> HijriCell("late", 1)]}

PureDates == {d * MS_PER_DAY + StartMinute * MS_PER_MINUTE : d \in 0..PureDays}
ScheduleFiles == {"full", "late", "sparse"}

LoadCalls ==
    {[fn |-> "loadPrayerTimesForDate", csv |-> c, date |-> d, before |-> b] :
        c \in ScheduleFiles \cup {"headerOnly", NoCsv}, d \in PureDates, b \in PriorFields}

CsvCalls ==
    {[fn |-> "loadCSVData", csv |-> c, date |-> d, before |-> b] :
        c \in ScheduleFiles, d \in PureDates, b \in PriorFields}

(***************************************************************************)
(* parseTime on the text of a cell.  A string is the sequence of its       *)
(* characters; trim, split and parseInt are those of the language.         *)
(***************************************************************************)
Digits == <<"0", "1", "2", "3", "4", "5", "6", "7", "8", "9">>
IsDigit(c) == \E i \in 1..Len(Digits) : Digits[i] = c
DigitValue(c) == (CHOOSE i \in 1..Len(Digits) : Digits[i] = c) - 1

\* String.prototype.trim
trim(str) ==
    LET kept == {i \in 1..Len(str) : str[i] # " "}
    IN IF kept = {} THEN <<>> ELSE SubSeq(str, Min(kept), Max(kept))

\* String.prototype.split with a one-character separator
RECURSIVE split(_, _)
split(str, sep) ==
    LET at == {i \in 1..Len(str) : str[i] = sep}
    IN IF at = {} THEN <<str>>
       ELSE <<SubSeq(str, 1, Min(at) - 1)>> \o split(SubSeq(str, Min(at) + 1, Len(str)), sep)

\* the value of a run of digits
RECURSIVE DigitsValue(_)
DigitsValue(ds) ==
    IF ds = <<>> THEN 0
    ELSE 10 * DigitsValue(SubSeq(ds, 1, Len(ds) - 1)) + DigitValue(ds[Len(ds)])

\* parseInt(str, 10): leading white space and a sign are skipped, the longest
\* run of digits that follows is the value, and whatever comes after it is
\* ignored; without a digit the result is NaN
parseInt(str) ==
    LET body == LET kept == {i \in 1..Len(str) : str[i] # " "}
                IN IF kept = {} THEN <<>> ELSE SubSeq(str, Min(kept), Len(str))
        signed == body # <<>> /\ body[1] \in {"+", "-"}
        rest == IF signed THEN Tail(body) ELSE body
        stop == {i \in 1..Len(rest) : ~IsDigit(rest[i])}
        run == IF stop = {} THEN rest ELSE SubSeq(rest, 1, Min(stop) - 1)
    IN IF run = <<>> THEN [nan |-> TRUE, value |-> 0]
       ELSE [nan |-> FALSE,
             value |-> IF signed /\ body[1] = "-" THEN 0 - DigitsValue(run)
                       ELSE DigitsValue(run)]

Thrown == [ok |-> FALSE, hour |-> 0, minute |-> 0]

\* parseTime(timeStr) on a string
parseTimeStr(timeStr) ==
    LET parts == split(trim(timeStr), " ")
        timeParts == split(parts[1], ":")
        hour == parseInt(timeParts[1])
        minute == parseInt(timeParts[2])
        modifier == parts[2]
    IN IF timeStr = <<>> THEN Thrown
       ELSE IF Len(parts) # 2 THEN Thrown
       ELSE IF Len(timeParts) # 2 THEN Thrown
       ELSE IF hour.nan \/ minute.nan THEN Thrown
       ELSE IF hour.value < 1 \/ hour.value > 12 THEN Thrown
       ELSE IF minute.value < 0 \/ minute.value > 59 THEN Thrown
       ELSE IF modifier # <<"A", "M">> /\ modifier # <<"P", "M">> THEN Thrown
       ELSE [ok |-> TRUE,
             hour |-> IF modifier = <<"P", "M">> /\ hour.value # 12 THEN hour.value + 12
                      ELSE IF modifier = <<"A", "M">> /\ hour.value = 12 THEN 0
                      ELSE hour.value,
             minute |-> minute.value]

\* the strings parseTime is called with: an hour text, a separator, a minute
\* text and what follows it
HourTexts ==
    {<<"0">>, <<"1">>, <<"5">>, <<"0", "5">>, <<"1", "1">>, <<"1", "2">>, <<"1", "3">>,
     <<"+", "5">>, <<"5", "x">>, <<"x">>, <<>>}
MinuteTexts ==
    {<<"0", "0">>, <<"0", "5">>, <<"5", "9">>, <<"6", "0">>, <<"5">>, <<"5", "9", "a">>,
     <<"0", "5", ":", "0", "0">>, <<"4", "9">>, <<>>}
ModifierTexts ==
    {<<" ", "A", "M">>, <<" ", "P", "M">>, <<>>, <<" ", "a", "m">>, <<" ", "X", "M">>,
     <<" ", " ", "A", "M">>, <<" ", "P", "M", " ">>}
TimeTexts ==
    {h \o sep \o m \o mod :
        h \in HourTexts, sep \in {<<":">>, <<>>}, m \in MinuteTexts, mod \in ModifierTexts}

ParseCalls == {[fn |-> "parseTime", timeStr |-> str] : str \in TimeTexts}

PureCalls == LoadCalls \cup CsvCalls \cup ParseCalls

PureInit ==
    /\ variant = "pure"
    /\ call \in PureCalls
    /\ returned = NoCall
    /\ now = 0
    /\ csvFile = "full"
    /\ watch = "Subuh"
    /\ csvDataRaw = NoCsv
    /\ isInitialized = FALSE
    /\ tickDue = 0
    /\ clearDue = 0
    /\ currentDateKey = NoDateKey
    /\ todayPrayerTimes = EmptyObj
    /\ nextPrayer = NULL
    /\ nextTimeMs = NullMs
    /\ audioPlayed = {}
    /\ currentPrayer = NULL
    /\ timerText = InitialText
    /\ lastOp = "constructed"
    /\ lastPlayed = {}
    /\ playsSinceClear = NoPlays
    /\ lateCount = 0
    /\ playsToday = NoCues
    /\ playsYesterday = NoCues
    /\ currentZone = "JHR04"
    /\ monthlyPrayerData = NoEntries
    /\ localStorage = NoEntries
    /\ storageFull = FALSE
    /\ remoteUp = TRUE
    /\ inFlight = {}
    /\ detecting = FALSE
    /\ userActions = 0
    /\ tickSteps = {}
    /\ LifeUnused

pureFixed == <<now, csvFile, csvDataRaw, isInitialized, currentDateKey, todayPrayerTimes,
               clockFields, lastOp, variant, tickDue, clearDue, lateCount, watch, apiOnly,
               lifeVars, call>>

\* loadPrayerTimesForDate(date)
CallLoad ==
    /\ variant = "pure"
    /\ call.fn = "loadPrayerTimesForDate"
    /\ returned = NoCall
    /\ returned' = WithHijri(call.csv,
                             loadPrayerTimesForDate(call.csv, call.date, call.before.times,
                                                    call.before.key),
                             call.before.hijri)
    /\ UNCHANGED pureFixed

\* loadCSVData(), once the file is fetched and validated
CallLoadCSV ==
    /\ variant = "pure"
    /\ call.fn = "loadCSVData"
    /\ returned = NoCall
    /\ returned' = WithHijri(call.csv,
                             loadCSVData(call.csv, call.date, call.before.times,
                                         call.before.key),
                             call.before.hijri)
    /\ UNCHANGED pureFixed

\* parseTime(timeStr)
CallParse ==
    /\ variant = "pure"
    /\ call.fn = "parseTime"
    /\ returned = NoCall
    /\ returned' = parseTimeStr(call.timeStr)
    /\ UNCHANGED pureFixed

PureNext ==
    \/ CallLoad
    \/ CallLoadCSV
    \/ CallParse

PureSpec == PureInit /\ [][PureNext]_vars

(***************************************************************************)
(* Properties.  The entries of the loaded schedule are those with a        *)
(* well-formed time; an entry's time is its time of day on the day of now. *)
(***************************************************************************)
IsEntry(n) == n \in DOMAIN todayPrayerTimes /\ parseTime(todayPrayerTimes[n]).ok
Entries == {n \in DOMAIN todayPrayerTimes : IsEntry(n)}
TimeOf(n) ==
    getTimeInMs(now, parseTime(todayPrayerTimes[n]).hour, parseTime(todayPrayerTimes[n]).minute)
Ticked == lastOp = "tick" /\ hasPrayerTimes(todayPrayerTimes)
StrictlyIncreasing ==
    \A i \in 1..Len(PRAYER_NAMES) : \A j \in (i + 1)..Len(PRAYER_NAMES) :
        (IsEntry(PRAYER_NAMES[i]) /\ IsEntry(PRAYER_NAMES[j]))
            => TimeOf(PRAYER_NAMES[i]) < TimeOf(PRAYER_NAMES[j])
Arrived == {n \in Entries : TimeOf(n) <= now}

\* C1, first half: in a strictly increasing schedule the current entry of a
\* tick is the entry with the greatest time <= now, and none when now
\* precedes the first entry.
C1_GreatestArrived ==
    (Ticked /\ StrictlyIncreasing) =>
        LET arrived == Arrived
        IN IF arrived = {} THEN currentPrayer = NULL
           ELSE /\ currentPrayer \in arrived
                /\ \A m \in arrived : TimeOf(m) <= TimeOf(currentPrayer)

\* C1, second half: from one tick to the next of the same day, under the
\* same strictly increasing schedule, the position of the current entry in
\* the canonical order does not decrease.
C1_Step ==
    (/\ hasPrayerTimes(todayPrayerTimes)
     /\ todayPrayerTimes' = todayPrayerTimes
     /\ DayOf(now') = DayOf(now)
     /\ currentPrayer' # currentPrayer
     /\ StrictlyIncreasing)
        => Pos(currentPrayer') > Pos(currentPrayer)

\* C1: in every state the current entry is the greatest entry <= now, and it
\* is monotonic as now advances through the ticks of a day.
C1_Current == C1_GreatestArrived /\ [][C1_Step /\ C1_GreatestArrived']_vars

\* C1 witness: a tick strictly between Asar and Maghrib of the full schedule.
C1_Witness ==
    /\ Ticked
    /\ todayPrayerTimes = FullRow
    /\ currentPrayer = "Asar"
    /\ now > TimeOf("Asar")

\* C2 as stated: at a tick whose now equals an entry's time, that entry is
\* the current entry and is not the next entry.
C2_Original ==
    Ticked => \A n \in Entries :
        TimeOf(n) = now => (currentPrayer = n /\ nextPrayer # n)

\* C2 amended: at a tick whose now equals an entry's time, that entry is not
\* the next entry, and it is the current entry unless an entry later in the
\* canonical order also has a time <= now.
C2_ClosedLowerBound ==
    Ticked => \A n \in Entries :
        TimeOf(n) = now =>
            /\ nextPrayer # n
            /\ (\A m \in Entries : Pos(m) > Pos(n) => TimeOf(m) > now) => currentPrayer = n

\* C2 witness: a tick exactly at an entry's time, that entry current and
\* another entry next.
C2_Witness ==
    /\ Ticked
    /\ \E n \in Entries : TimeOf(n) = now /\ currentPrayer = n
    /\ nextPrayer # NULL

\* C3: after a tick with a loaded schedule, next is the entry other than
\* Imsak with the smallest time > now, the first in canonical order on a
\* tie, or null when there is none; Imsak is never next.
Upcoming == {n \in Entries \ {"Imsak"} : TimeOf(n) > now}
C3_Next ==
    /\ nextPrayer # "Imsak"
    /\ Ticked =>
        IF Upcoming = {} THEN nextPrayer = NULL
        ELSE /\ nextPrayer \in Upcoming
             /\ \A m \in Upcoming :
                    \/ TimeOf(nextPrayer) < TimeOf(m)
                    \/ TimeOf(nextPrayer) = TimeOf(m) /\ Pos(nextPrayer) <= Pos(m)

\* C3 witness: Imsak is the only entry still ahead of now, and next is null.
C3_Witness ==
    /\ Ticked
    /\ "Imsak" \in Entries
    /\ TimeOf("Imsak") > now
    /\ nextPrayer = NULL

\* C4: at a tick whose now is later than the time of every entry of the
\* loaded schedule, next is none (nextPrayer and nextTimeMs are null), the
\* timer shows the "all prayers complete" message, and the tick plays no cue.
C4_DayComplete ==
    (Ticked /\ \A n \in Entries : TimeOf(n) < now) =>
        /\ nextPrayer = NULL
        /\ nextTimeMs = NullMs
        /\ timerText = Text("allPrayersComplete", NULL, NoDiff)
        /\ lastPlayed = {}

\* C4 witness: a tick after Isyak, the last entry of the full schedule, that
\* follows ticks at which Isyak was next.
C4_Witness ==
    /\ Ticked
    /\ todayPrayerTimes = FullRow
    /\ currentPrayer = "Isyak"
    /\ now > TimeOf("Isyak")
    /\ timerText.kind = "allPrayersComplete"

\* C5: whenever a next entry exists, the remaining time nextTimeMs - now is
\* positive and the timer shows hours, mins and secs with
\* hours * 3600 + mins * 60 + secs = floor(remaining / 1000), hours >= 0,
\* 0 <= mins <= 59 and 0 <= secs <= 59.
C5_Remaining ==
    nextPrayer # NULL =>
        /\ timerText.kind = "countdown"
        /\ nextTimeMs - now > 0
        /\ timerText.hours * 3600 + timerText.mins * 60 + timerText.secs
               = (nextTimeMs - now) \div 1000
        /\ timerText.hours >= 0
        /\ timerText.mins >= 0 /\ timerText.mins <= 59
        /\ timerText.secs >= 0 /\ timerText.secs <= 59

\* C5 witness: a countdown of more than an hour with no component zero, for
\* a remaining time that is not a whole number of seconds.
C5_Witness ==
    /\ nextPrayer # NULL
    /\ timerText.hours >= 1
    /\ timerText.mins >= 1
    /\ timerText.secs >= 1
    /\ (nextTimeMs - now) % 1000 # 0

\* C6: with the schedule Subuh = 05:59, Zohor = 13:05, a tick at 05:59:00
\* has current = Subuh, next = Zohor at 13:05 and shows 7h 6m 0s; a tick at
\* 13:05:01 has current = Zohor.
C6_Example ==
    (Ticked /\ todayPrayerTimes = ExampleRow) =>
        /\ now = getTimeInMs(now, 5, 59) =>
               /\ currentPrayer = "Subuh"
               /\ nextPrayer = "Zohor"
               /\ nextTimeMs = getTimeInMs(now, 13, 5)
               /\ timerText = Text("countdown", "Zohor", [hours |-> 7, mins |-> 6, secs |-> 0])
        /\ now = getTimeInMs(now, 13, 5) + 1000 => currentPrayer = "Zohor"

\* C6 witness: the tick at 05:59:00 under the example schedule.
C6_Witness ==
    /\ Ticked
    /\ todayPrayerTimes = ExampleRow
    /\ now = getTimeInMs(now, 5, 59)
    /\ nextPrayer = "Zohor"

\* C6, second instant: the tick at 13:05:01 under the example schedule.
C6_WitnessZohor ==
    /\ Ticked
    /\ todayPrayerTimes = ExampleRow
    /\ now = getTimeInMs(now, 13, 5) + 1000
    /\ currentPrayer = "Zohor"

\* C7 as stated: for every entry E other than Imsak, a tick within 1000 ms
\* of E's time plays E's adhan file unless audioPlayed already held it, and
\* a tick within 1000 ms of 10 minutes before E's time plays E's recitation
\* file unless audioPlayed already held it.  A file that was held or played
\* is in audioPlayed after the tick.
C7_CueFires ==
    Ticked => \A E \in Entries \ {"Imsak"} :
        /\ Abs(now - TimeOf(E)) < AUDIO_TRIGGER_THRESHOLD
               => AdhanFile(E) \in audioPlayed
        /\ Abs(now - (TimeOf(E) - RecitationOffsetMs)) < AUDIO_TRIGGER_THRESHOLD
               => ReciteFile(E) \in audioPlayed

\* C7, the part the code keeps: a tick inside the window of a cue of the
\* entry that is next plays the file unless audioPlayed already held it.
C7_NextCueFires ==
    (Ticked /\ nextPrayer # NULL) =>
        /\ Abs(now - nextTimeMs) < AUDIO_TRIGGER_THRESHOLD
               => AdhanFile(nextPrayer) \in audioPlayed
        /\ Abs(now - (nextTimeMs - RecitationOffsetMs)) < AUDIO_TRIGGER_THRESHOLD
               => ReciteFile(nextPrayer) \in audioPlayed

\* C7 witness: a tick that plays the adhan of the entry that is next.
C7_Witness ==
    /\ Ticked
    /\ nextPrayer # NULL
    /\ AdhanFile(nextPrayer) \in lastPlayed

\* C8: between two clears of audioPlayed each cue file is played at most
\* once; a file is in audioPlayed exactly when it has been played since the
\* last clear, so no later tick of the period plays it again.
C8_OncePerPeriod ==
    \A f \in Files :
        /\ playsSinceClear[f] <= 1
        /\ f \in audioPlayed <=> playsSinceClear[f] = 1

\* C8 witness: a tick inside the recitation window of the next entry that
\* does not play the file, because an earlier tick of the period did.
C8_Witness ==
    /\ Ticked
    /\ nextPrayer # NULL
    /\ Abs(now - (nextTimeMs - RecitationOffsetMs)) < AUDIO_TRIGGER_THRESHOLD
    /\ ReciteFile(nextPrayer) \in audioPlayed
    /\ ReciteFile(nextPrayer) \notin lastPlayed

\* C9 as stated: on every day, the recitation cue of an entry is played no
\* more than once and its adhan cue is played no more than once, under every
\* interleaving of the tick timer and the clear timer (in every state, for
\* the day of now and the watched entry).
C9_OncePerDay ==
    playsToday.recite <= 1 /\ playsToday.adhan <= 1

\* C10: at a tick of day D+1 inside the window of a cue of the watched
\* entry while that entry is next, if the cue was played on day D then it
\* has been played on day D+1 as well: no entry left in audioPlayed from
\* day D suppresses it.
C10_EligibleNextDay ==
    (Ticked /\ DayOf(now) >= 1 /\ nextPrayer = watch) =>
        /\ (/\ Abs(now - (nextTimeMs - RecitationOffsetMs)) < AUDIO_TRIGGER_THRESHOLD
            /\ playsYesterday.recite >= 1)
               => playsToday.recite >= 1 /\ ReciteFile(watch) \in audioPlayed
        /\ (/\ Abs(now - nextTimeMs) < AUDIO_TRIGGER_THRESHOLD
            /\ playsYesterday.adhan >= 1)
               => playsToday.adhan >= 1 /\ AdhanFile(watch) \in audioPlayed

\* C10 witness: a tick of day 1 that plays the recitation of the watched
\* entry, which was played on day 0 too.
C10_Witness ==
    /\ Ticked
    /\ DayOf(now) = 1
    /\ nextPrayer = watch
    /\ ReciteFile(watch) \in lastPlayed
    /\ playsYesterday.recite >= 1

\* C11 as stated: at a tick whose checkDateChange finds the day key of now
\* different from currentDateKey, audioPlayed is empty when the cues of that
\* tick are evaluated, so after the tick it holds only what the tick played.
C11_ClearedOnDayChange ==
    [][(/\ lastOp' = "tick"
        /\ getSeconds(now') = 0
        /\ csvDataRaw # NoCsv
        /\ formatDate(now') # currentDateKey)
           => audioPlayed' \subseteq lastPlayed']_vars

\* C12 as stated: after every tick at which the source has a row for the
\* day of now, currentDateKey is the key of that day and todayPrayerTimes
\* is its row.
C12_ReloadOnKeyChange ==
    (Ticked /\ HasRow(csvDataRaw, formatDate(now))) =>
        /\ currentDateKey = formatDate(now)
        /\ todayPrayerTimes = Rows(csvDataRaw)[formatDate(now)]

\* C12, the part the code keeps: the same after the ticks that fall in
\* second 0 of a minute, the only ones that check the date.
C12_ReloadAtSecondZero ==
    (Ticked /\ getSeconds(now) = 0 /\ HasRow(csvDataRaw, formatDate(now))) =>
        /\ currentDateKey = formatDate(now)
        /\ todayPrayerTimes = Rows(csvDataRaw)[formatDate(now)]

\* C12 witness: the tick of second 0 after midnight that loads the row of day 1.
C12_Witness ==
    /\ Ticked
    /\ DayOf(now) = 1
    /\ now = DayOf(now) * MS_PER_DAY
    /\ currentDateKey = 1
    /\ todayPrayerTimes = FullRow2

\* C13 as stated: after a tick whose date check finds no row for the new
\* day, no next entry, countdown or cue is resolved from the entries of
\* the previous day.
C13_NoDataState ==
    (/\ Ticked
     /\ getSeconds(now) = 0
     /\ currentDateKey # NoDateKey
     /\ formatDate(now) > currentDateKey
     /\ ~HasRow(csvDataRaw, formatDate(now))) =>
        /\ nextPrayer = NULL
        /\ timerText.kind # "countdown"
        /\ lastPlayed = {}

(***************************************************************************)
(* Properties of the schedule repository.                                  *)
(***************************************************************************)
ApiDates == {d * MS_PER_DAY : d \in 0..3}
CsvDates == {d * MS_PER_DAY : d \in Days}

\* the month of the zone is in memory and has a day for the date
HasDay(monthly, zone, date) ==
    /\ MonthKey(zone, date) \in DOMAIN monthly
    /\ formatDateForApi(date) \in DOMAIN monthly[MonthKey(zone, date)]

\* C14: a lookup for a day with no data returns false and throws nothing,
\* and leaves the loaded schedule as it was: in the CSV variant for every
\* date without a row, also with no CSV loaded; in the API variant for
\* every zone and date without a matching day in the month data in memory,
\* also when the month is not in memory.
C14_NotFound ==
    /\ \A csv \in CsvFiles \cup {NoCsv} : \A date \in CsvDates :
          ~HasRow(csv, formatDate(date)) =>
              LET r == loadPrayerTimesForDate(csv, date, todayPrayerTimes, currentDateKey)
              IN ~r.ok /\ r.times = todayPrayerTimes /\ r.key = currentDateKey
    /\ \A zone \in Zones : \A date \in ApiDates :
          ~HasDay(monthlyPrayerData, zone, date) =>
              LET r == loadPrayerTimesForDateApi(monthlyPrayerData, zone, date,
                                                 todayPrayerTimes, currentDateKey)
              IN ~r.ok /\ ~r.threw /\ r.times = todayPrayerTimes /\ r.key = currentDateKey

\* C14 witness: the month of WLY01 that lacks day 2 is in memory on day 2,
\* a tick has looked the day up, and nothing is loaded for it.
C14_Witness ==
    /\ lastOp = "tick"
    /\ currentZone = "WLY01"
    /\ DayOf(now) = 2
    /\ getSeconds(now) = 0
    /\ MonthKey("WLY01", now) \in DOMAIN monthlyPrayerData
    /\ ~HasDay(monthlyPrayerData, "WLY01", now)
    /\ currentDateKey # formatDateForApi(now)
    /\ tickSteps = TickSteps

\* the month keys for which the step sends a remote request
Sent == KeysOf(inFlight' \ inFlight)

\* C15: once fetchPrayerData has succeeded for a month key (the month is in
\* state.monthlyPrayerData), the month data of that key stays as it is and
\* no later step sends a remote request for that key, also when
\* localStorage rejected the write.
C15_CacheHit ==
    [][\A k \in DOMAIN monthlyPrayerData :
          /\ k \in DOMAIN monthlyPrayerData'
          /\ monthlyPrayerData'[k] = monthlyPrayerData[k]
          /\ k \notin Sent]_vars

\* C15, the part that the code keeps: the same, for the keys whose month
\* localStorage holds.
C15_StoredCacheHit ==
    [][\A k \in DOMAIN monthlyPrayerData :
          /\ k \in DOMAIN monthlyPrayerData'
          /\ monthlyPrayerData'[k] = monthlyPrayerData[k]
          /\ ("prayer_times_" \o k) \in DOMAIN localStorage => k \notin Sent]_vars
\* the requests that complete in a step, and the steps that call
\* handleZoneChange(state.currentZone) for the month of the instant
Completed == inFlight \ inFlight'
ZoneChangeCalled ==
    /\ variant = "api"
    /\ \/ userActions' # userActions /\ detecting' = detecting
       \/ detecting /\ ~detecting'
       \/ /\ isInitialized /\ now' # now /\ getSeconds(now') = 0
          /\ formatDateForApi(now') # currentDateKey
          /\ MonthKey(currentZone, now') \notin DOMAIN monthlyPrayerData
FetchFailed == variant = "api" /\ Completed # {} /\ lastOp' = "fetchFailed"

\* a fetchPrayerData call for a month that localStorage does not hold
\* sends a remote request, whatever failed before
C16_Retried ==
    ZoneChangeCalled /\ CacheKey(currentZone', now') \notin DOMAIN localStorage'
        => MonthKey(currentZone', now') \in KeysOf(inFlight')
\* the per-day page stores nothing when its fetch fails or the day is absent
C16_DayStoresNothing ==
    variant = "perday" /\ Completed # {} /\ lastOp' \in {"fetchFailed", "absent"}
        => localStorage' = localStorage

\* C16 as stated: after a failed fetchPrayerData for a key neither
\* state.monthlyPrayerData nor localStorage holds an entry for that key, the
\* next fetchPrayerData for the key sends a new remote request, and the
\* per-day page stores nothing when its fetch fails or the day is absent.
C16_Original ==
    [][/\ FetchFailed =>
              \A r \in Completed :
                  /\ MonthKey(r.zone, r.date) \notin DOMAIN monthlyPrayerData'
                  /\ CacheKey(r.zone, r.date) \notin DOMAIN localStorage'
       /\ C16_Retried
       /\ C16_DayStoresNothing]_vars

\* C16 (amended): a failed fetchPrayerData adds no entry: it leaves
\* state.monthlyPrayerData and localStorage exactly as they were (an entry
\* that another successful fetch of the same month stored stays); every
\* fetchPrayerData for a month that localStorage does not hold sends a
\* remote request; the per-day page stores nothing when its fetch fails or
\* the day is absent.
C16_NoPoison ==
    [][/\ FetchFailed => /\ monthlyPrayerData' = monthlyPrayerData
                         /\ localStorage' = localStorage
       /\ C16_Retried
       /\ C16_DayStoresNothing]_vars

\* a failed startup fetch whose month is in neither store is asked for again
\* by the date check of a later tick
C16_Witness ==
    /\ variant = "api"
    /\ lastOp = "tick"
    /\ getSeconds(now) = 0
    /\ userActions = 0
    /\ ~detecting
    /\ monthlyPrayerData = NoEntries
    /\ CacheKey(currentZone, now) \notin DOMAIN localStorage
    /\ inFlight = {Request(currentZone, now, "zoneChange")}
\* the per-day page after the calendar had no entry for the day
C16_WitnessAbsent ==
    variant = "perday" /\ lastOp = "absent" /\ DateKeyText(currentDateKey) \notin DOMAIN localStorage


RunMidnight(t) == ApiHorizon(t) - ApiMinutes * MS_PER_MINUTE
\* the remote serves a well-formed day of zone for the date of t
Served(zone, t) ==
    /\ formatDateForApi(t) \in DOMAIN RemoteData(MonthKey(zone, t))
    /\ parseTime(RemoteData(MonthKey(zone, t))[formatDateForApi(t)].fajr).ok
\* today's schedule of state.currentZone is loaded
Loaded ==
    /\ Served(currentZone, now)
    /\ currentDateKey = formatDateForApi(now)
    /\ todayPrayerTimes =
           LoadDay(RemoteData(MonthKey(currentZone, now))[formatDateForApi(now)], now,
                   currentDateKey).times
\* the fetch for the current zone and month has failed and nothing is
\* pending for it: the month is neither in memory nor in localStorage
Failed ==
    /\ variant = "api"
    /\ lastOp = "fetchFailed"
    /\ isInitialized
    /\ ~detecting
    /\ MonthKey(currentZone, now) \notin DOMAIN monthlyPrayerData
    /\ MonthKey(currentZone, now) \notin KeysOf(inFlight)

\* C18: after the fetch for the current zone and month has failed (at
\* startup or after a zone change), if no user action follows and the remote
\* answers from the next midnight on, a new fetch is sent and today's
\* schedule of state.currentZone is eventually loaded.  Checked for failures
\* before the midnight of the run and zones whose next day the remote serves.
C18_Recovers ==
    \A n \in 0..MaxUserActions :
        (Failed /\ userActions = n /\ now < RunMidnight(now)
                /\ Served(currentZone, RunMidnight(now)))
            ~> (Loaded \/ userActions > n \/ (now >= RunMidnight(now) /\ ~remoteUp))

\* a failed fetch at startup, before the midnight of the run
C18_Witness ==
    /\ Failed
    /\ userActions = 0
    /\ now < RunMidnight(now)
    /\ Served(currentZone, RunMidnight(now))
    /\ currentDateKey = NoDateKey
\* a failed fetch after a zone change, the schedule of the zone before loaded
C18_WitnessZoneChange ==
    /\ Failed
    /\ userActions = MaxUserActions
    /\ now < RunMidnight(now)
    /\ Served(currentZone, RunMidnight(now))
    /\ currentDateKey = formatDateForApi(now)
\* recovered after midnight without a user action or a saved zone
C18_WitnessRecovered ==
    /\ variant = "api"
    /\ lastOp = "fetchOk"
    /\ userActions = 0
    /\ "selected_zone" \notin DOMAIN localStorage
    /\ now >= RunMidnight(now)
    /\ Loaded

\* C19: every tick of the initialized API page runs the time display
\* update, the current-entry resolution and the next-entry resolution, also
\* when the date-change reload of that tick fails.
C19_TickIsolated ==
    variant = "api" /\ lastOp = "tick" => {"display", "highlight", "timer"} \subseteq tickSteps

\* a tick after the failed one runs all its steps
C19_LaterTickRuns ==
    [][variant = "api" /\ lastOp = "tick" /\ tickSteps = {} /\ lastOp' = "tick"
           /\ getSeconds(now') # 0 => tickSteps' = TickSteps]_vars

\* the schedules that the remote serves for a zone (the served sunrise
\* times of the two zones differ on every day)
HoldsEntriesOf(times, zone) ==
    /\ "Syuruk" \in DOMAIN times
    /\ \E t \in ApiDates : \E d \in DOMAIN RemoteData(MonthKey(zone, t)) :
           times["Syuruk"] = RemoteData(MonthKey(zone, t))[d].syuruk

\* C20: the completion of a fetch that was sent for a zone other than the
\* one now in state.currentZone never puts that zone's entries into
\* state.todayPrayerTimes: what the completion loads, if anything, is an
\* entry of the current zone.
C20_SupersededDiscarded ==
    [][\A req \in Completed :
           variant = "api" /\ req.zone # currentZone /\ todayPrayerTimes' # todayPrayerTimes
               => /\ ~HoldsEntriesOf(todayPrayerTimes', req.zone)
                  /\ HoldsEntriesOf(todayPrayerTimes', currentZone)]_vars

\* a fetch sent for the zone before has completed after the zone change:
\* its month is in memory and the load has asked for the current zone's
C20_Witness ==
    /\ variant = "api"
    /\ lastOp = "fetchOk"
    /\ \E r \in inFlight : r.cont = "reload" /\ r.zone = currentZone
    /\ \E z \in Zones \ {currentZone} : \E d \in ApiDates : MonthKey(z, d) \in DOMAIN monthlyPrayerData
    /\ ~HoldsEntriesOf(todayPrayerTimes, CHOOSE z \in Zones : z # currentZone)
\* a superseded completion that loaded the current zone's entries
C20_WitnessLoaded ==
    /\ variant = "api"
    /\ lastOp = "fetchOk"
    /\ storageFull
    /\ userActions = MaxUserActions
    /\ inFlight = {}
    /\ HoldsEntriesOf(todayPrayerTimes, currentZone)
    /\ \E z \in Zones \ {currentZone} : \E d \in ApiDates : MonthKey(z, d) \in DOMAIN monthlyPrayerData

\* C21: after a zone selection the countdown and the cues of a tick are
\* never computed from the schedule of the zone selected before: a tick that
\* resolves a next entry reads entries of state.currentZone.
C21_NotDrivenByPrevious ==
    variant = "api" /\ lastOp = "tick" /\ "timer" \in tickSteps /\ nextPrayer # NULL
        => HoldsEntriesOf(todayPrayerTimes, currentZone)

\* the first half of C21: a completed fetch that was sent for the current
\* zone on the current day loads that zone's entry of the day, when the
\* remote serves it in a parseable form
C21_LoadedOnSuccess ==
    [][\A req \in Completed :
           variant = "api" /\ lastOp' = "fetchOk" /\ req.zone = currentZone
               /\ req.cont = "zoneChange" /\ DayOf(req.date) = DayOf(now)
               /\ Served(currentZone, now)
               => Loaded']_vars

\* a tick whose date check finds a day key other than state.currentDateKey
DateChangeTick ==
    /\ variant = "api"
    /\ isInitialized
    /\ now' # now
    /\ getSeconds(now') = 0
    /\ formatDateForApi(now') # currentDateKey

\* C22: at a date check that finds a new day key, when the month of
\* (currentZone, now) is not in memory (the first check of a new month) the
\* month is taken from localStorage or a request for it is in flight after
\* the tick, and when such a request of the new month succeeds for the
\* current zone the served day is loaded with the new day key; when the
\* month is in memory the served day is loaded in the same tick and no
\* request is sent.
C22_MonthRollover ==
    [][/\ DateChangeTick /\ MonthKey(currentZone, now') \notin DOMAIN monthlyPrayerData
              => \/ CacheHit(localStorage, currentZone, now')
                 \/ MonthKey(currentZone, now') \in KeysOf(inFlight')
       /\ \A req \in Completed :
              variant = "api" /\ lastOp' = "fetchOk" /\ req.zone = currentZone
                  /\ DayOf(req.date) = DayOf(now) /\ YearMonth(now) = "2024_2"
                  /\ Served(currentZone, now)
                  => Loaded' /\ currentDateKey' = formatDateForApi(now)
       /\ DateChangeTick /\ MonthKey(currentZone, now') \in DOMAIN monthlyPrayerData
              /\ Served(currentZone, now')
              => Loaded' /\ Sent = {} /\ tickSteps' = TickSteps]_vars

\* the first day of the new month is loaded from the month fetched at the
\* midnight check
C22_Witness ==
    /\ variant = "api"
    /\ lastOp = "fetchOk"
    /\ DayOf(now) = 2
    /\ userActions = 0
    /\ "selected_zone" \in DOMAIN localStorage
    /\ localStorage["selected_zone"] = currentZone
    /\ MonthKey(currentZone, now) \in DOMAIN monthlyPrayerData
    /\ Loaded
\* the new day of the same month is loaded by the midnight tick itself
C22_WitnessInMemory ==
    /\ variant = "api"
    /\ lastOp = "tick"
    /\ DayOf(now) = 1
    /\ getSeconds(now) = 0
    /\ now = RunMidnight(now)
    /\ inFlight = {}
    /\ Loaded

\* C24: at every tick with Imsak.time <= now < Subuh.time under a strictly
\* increasing schedule, the current entry is Imsak, the next entry is Subuh
\* and no cue of Imsak is played or recorded.
C24_ImsakCurrentOnly ==
    (/\ Ticked /\ StrictlyIncreasing
     /\ IsEntry("Imsak") /\ IsEntry("Subuh")
     /\ TimeOf("Imsak") <= now /\ now < TimeOf("Subuh"))
        => /\ currentPrayer = "Imsak"
           /\ nextPrayer = "Subuh"
           /\ nextTimeMs = TimeOf("Subuh")
           /\ {ReciteFile("Imsak"), AdhanFile("Imsak")} \cap (lastPlayed \cup audioPlayed) = {}

\* a tick at Imsak's own time, which is also the recitation time of Subuh
C24_Witness ==
    /\ Ticked /\ StrictlyIncreasing
    /\ IsEntry("Imsak") /\ IsEntry("Subuh")
    /\ TimeOf("Imsak") = now
    /\ currentPrayer = "Imsak"
    /\ ReciteFile("Subuh") \in lastPlayed

\* C26: a tick that plays the adhan of an entry E has
\* E.time - 1000 ms < now < E.time.
C26_AdhanBeforeTime ==
    Ticked => \A E \in Entries :
        AdhanFile(E) \in lastPlayed
            => TimeOf(E) - AUDIO_TRIGGER_THRESHOLD < now /\ now < TimeOf(E)

\* a tick half a second before the entry's time plays its adhan
C26_Witness ==
    /\ Ticked
    /\ \E E \in Entries : AdhanFile(E) \in lastPlayed /\ now = TimeOf(E) - HalfTick

\* C27: with every tick on time, each cue of the watched entry is played at
\* some tick of the day: once the entry's time lies more than a second
\* back, both its recitation and its adhan have been played that day.
C27_NoCueMissed ==
    (/\ Ticked /\ lateCount = 0
     /\ currentDateKey = formatDate(now)
     /\ IsEntry(watch)
     /\ now > TimeOf(watch) + AUDIO_TRIGGER_THRESHOLD)
        => playsToday.recite >= 1 /\ playsToday.adhan >= 1

\* what the code keeps of C27: with the ticks half a second off the whole
\* second and a strictly increasing schedule, the adhan of the watched entry
\* is played
C27_HalfPhase ==
    (/\ Ticked /\ lateCount = 0 /\ StrictlyIncreasing
     /\ currentDateKey = formatDate(now)
     /\ IsEntry(watch)
     /\ now % UPDATE_INTERVAL # 0
     /\ now > TimeOf(watch) + AUDIO_TRIGGER_THRESHOLD)
        => playsToday.adhan >= 1

\* C30: after any sequence of init runs, retries, restart and destroy calls,
\* at most one clock interval timer and at most one audio-clear interval
\* timer are active.
C30_OneTimerEach ==
    variant = "life" => Cardinality(clockTimers) <= 1 /\ Cardinality(audioTimers) <= 1

\* an init() run starts its timers while those of an earlier run are active
\* (the handles of the earlier run are still in use, so the new clock handle
\* is the third)
C30_Witness ==
    /\ variant = "life"
    /\ lastOp = "init"
    /\ clockInterval = 3
    /\ Cardinality(clockTimers) = 1

\* C23: an init() run that fails starts no timer, leaves isInitialized as it
\* was and schedules the next init() 5 seconds later; after every failure
\* the next run succeeds or fails in turn; and once the file is a schedule
\* and stays one, the app becomes initialized.
InitFails == variant = "life" /\ awaiting' = awaiting - 1 /\ lastOp' = "initFailed"
InTime == now + RETRY_DELAY <= LifeEnd
C23_RetryAfterFailure ==
    /\ [][InitFails =>
            /\ clockTimers' = clockTimers
            /\ audioTimers' = audioTimers
            /\ isInitialized' = isInitialized
            /\ \E to \in timeouts' \ timeouts :
                   to.due = now + 5000 /\ to.kind = "retry"]_vars
    /\ \A n \in 1..(MaxFailures - 1) :
           (variant = "life" /\ lastOp = "initFailed" /\ failures = n /\ InTime)
               ~> (isInitialized \/ failures > n)
    /\ (variant = "life" /\ lastOp = "initFailed" /\ Loadable(csvFile) /\ calls = MaxCalls
            /\ InTime)
           ~> isInitialized

\* the file became a schedule after a failed run, and the retry succeeded
C23_Witness ==
    /\ variant = "life"
    /\ lastOp = "init"
    /\ failures >= 1
    /\ isInitialized
    /\ clockTimers # {}

\* the file has become a schedule after a failed run, and stays one
C23_WitnessLoadable ==
    /\ variant = "life"
    /\ lastOp = "initFailed"
    /\ Loadable(csvFile)
    /\ calls = MaxCalls
    /\ InTime

\* a second failure in a row: the retry failed and scheduled the next one
C23_WitnessRepeat ==
    /\ variant = "life"
    /\ lastOp = "initFailed"
    /\ failures = 2
    /\ timeouts # {}

\* C28: whatever init runs, ticks and forceNextPrayer calls have happened,
\* neither cue file of Imsak has been played by a tick or is recorded in
\* audioPlayed.
ImsakFiles == {ReciteFile("Imsak"), AdhanFile("Imsak")}
C28_NoImsakAudio ==
    variant = "life" => ImsakFiles \cap (audioPlayed \cup lastPlayed) = {}

\* forceNextPrayer('Imsak') has just run on a loaded schedule whose Imsak is
\* still ahead, with the tick loop running
C28_Witness ==
    /\ variant = "life"
    /\ lastOp = "force Imsak"
    /\ isInitialized
    /\ clockTimers # {}
    /\ IsEntry("Imsak")
    /\ now < TimeOf("Imsak")

\* C25: at every tick on a loaded schedule that has a cell parseTime
\* rejects, current is the latest of the well-formed entries that have
\* arrived and next is the earliest of the well-formed entries other than
\* Imsak that are still ahead (null when there is none): the rejected cells
\* alone are skipped, and the ticks go on.
Malformed ==
    {n \in DOMAIN todayPrayerTimes :
        todayPrayerTimes[n] # NoTime /\ ~parseTime(todayPrayerTimes[n]).ok}
C25_MalformedSkipped ==
    (variant = "life" /\ Ticked /\ Malformed # {}) =>
        /\ IF Arrived = {} THEN currentPrayer = NULL
           ELSE /\ currentPrayer \in Arrived
                /\ \A m \in Arrived : TimeOf(m) <= TimeOf(currentPrayer)
        /\ IF Upcoming = {} THEN nextPrayer = NULL
           ELSE /\ nextPrayer \in Upcoming
                /\ \A m \in Upcoming : TimeOf(nextPrayer) <= TimeOf(m)

\* a tick after Subuh of the schedule with rejected cells: Imsak (before
\* Subuh in the order) and Syuruk (after it) are skipped
C25_Witness ==
    /\ variant = "life"
    /\ Ticked
    /\ Malformed = {"Imsak", "Syuruk"}
    /\ currentPrayer = "Subuh"
    /\ nextPrayer = "Zohor"
    /\ now > TimeOf("Subuh") + UPDATE_INTERVAL

\* C29: while the app is initialized, no cue file has been in audioPlayed
\* for more than AUDIO_CLEAR_INTERVAL.
C29_ClearedWithinPeriod ==
    (variant = "life" /\ isInitialized) =>
        \A f \in audioPlayed : now - addedAt[f] <= AUDIO_CLEAR_INTERVAL

\* what the code keeps of C29: with the timers of a single init() run, a
\* recorded cue file is removed within the period
C29_SingleRun ==
    (variant = "life" /\ isInitialized /\ audioInterval = 2) =>
        \A f \in audioPlayed : now - addedAt[f] <= AUDIO_CLEAR_INTERVAL

\* C31: once destroy() has returned, and until init() or restart() is called
\* again, isInitialized is false and no tick is processed (so no cue is
\* played), whatever init() run or retry was pending at the call.
C31_StoppedAfterDestroy ==
    (variant = "life" /\ destroyed) => ~isInitialized /\ lastOp # "tick"

\* C32: a loadPrayerTimesForDate call that returns false leaves
\* todayPrayerTimes, currentDateKey and currentHijriDate as they were; a
\* call that returns true stores the row of the date, its key and its Hijri
\* date together.
Done(fn) == variant = "pure" /\ call.fn = fn /\ returned # NoCall
FieldsOf(r) == [times |-> r.times, key |-> r.key, hijri |-> r.hijri]
C32_LoadFrame ==
    Done("loadPrayerTimesForDate") =>
        IF returned.ok
        THEN /\ returned.key = formatDate(call.date)
             /\ HasRow(call.csv, returned.key)
             /\ returned.times = Rows(call.csv)[returned.key]
             /\ returned.hijri = HijriCell(call.csv, returned.key)
        ELSE FieldsOf(returned) = call.before

\* a call for a date without a row, on a state that holds a loaded schedule
C32_Witness ==
    /\ Done("loadPrayerTimesForDate")
    /\ ~returned.ok
    /\ call.csv = "sparse"
    /\ returned.times = FullRow
    /\ returned.key = 0

\* a call that replaces the loaded schedule by the row of another date
C32_WitnessLoaded ==
    /\ Done("loadPrayerTimesForDate")
    /\ returned.ok
    /\ call.before.key = 0
    /\ returned.key = 9
    /\ returned.times = ExampleRow

\* C33: loadCSVData loads the row of today or, when today has none, of the
\* nearest of the next 7 days that has one; when none of today..today+7
\* has a row it loads nothing and still returns.
RowAhead(i) == HasRow(call.csv, formatDate(call.date) + i)
C33_NearestFollowingDay ==
    Done("loadCSVData") =>
        IF \E i \in 0..7 : RowAhead(i)
        THEN \E i \in 0..7 :
                 /\ RowAhead(i)
                 /\ \A j \in 0..(i - 1) : ~RowAhead(j)
                 /\ returned.ok
                 /\ returned.key = formatDate(call.date) + i
                 /\ returned.times = Rows(call.csv)[returned.key]
        ELSE ~returned.ok /\ FieldsOf(returned) = call.before

\* today and the day after have no row, the two days after those have one
\* each: the nearer one is loaded
C33_Witness ==
    /\ Done("loadCSVData")
    /\ call.csv = "sparse"
    /\ formatDate(call.date) = 7
    /\ returned.key = 9

\* the first row is 8 days ahead: nothing is loaded
C33_WitnessNone ==
    /\ Done("loadCSVData")
    /\ call.csv = "sparse"
    /\ formatDate(call.date) = 1
    /\ ~returned.ok

\* C34: nextPrayer is null exactly when nextTimeMs is null; and after a tick
\* on a loaded schedule, or a forceNextPrayer call that went on to
\* updateNextPrayerTimer (a valid name whose time parses), a non-null next
\* is an entry of the schedule, nextTimeMs is that entry's time on the day
\* of now, and it is strictly greater than now.
Forced == \E name \in ForcedNames \cap NameSet : lastOp = "force " \o name /\ IsEntry(name)
C34_NextPair ==
    variant = "life" =>
        /\ nextPrayer = NULL <=> nextTimeMs = NullMs
        /\ ((Ticked \/ Forced) /\ nextPrayer # NULL)
               => /\ IsEntry(nextPrayer)
                  /\ nextTimeMs = TimeOf(nextPrayer)
                  /\ nextTimeMs > now

\* forceNextPrayer has just run on a loaded schedule, at the time of an entry
C34_Witness ==
    /\ variant = "life"
    /\ Forced
    /\ nextPrayer # NULL
    /\ \E n \in Entries : TimeOf(n) = now

\* a tick at the time of an entry
C34_WitnessTick ==
    /\ variant = "life"
    /\ Ticked
    /\ nextPrayer # NULL
    /\ \E n \in Entries \ {"Imsak"} : TimeOf(n) = now

\* C35: at a tick at which todayPrayerTimes is empty, checkPrayerAudio plays
\* nothing, whatever nextPrayer and nextTimeMs still hold.
C35_NoCueWithoutSchedule ==
    (variant = "life" /\ lastOp = "tick" /\ ~hasPrayerTimes(todayPrayerTimes))
        => lastPlayed = {}

\* C36: a zone picked in the selector while detectLocation waits for its
\* result is kept when the result arrives next: currentZone is still the
\* picked zone and equals the persisted selected_zone.
C36_ManualSelectionKept ==
    [][(variant = "api" /\ detecting /\ lastOp = "select" /\ lastOp' = "detected")
           => /\ currentZone' = currentZone
              /\ "selected_zone" \in DOMAIN localStorage'
              /\ localStorage'["selected_zone"] = currentZone']_vars

\* C37: when forceNextPrayer(name) has returned, for a valid name whose time
\* in the loaded schedule parses, nextPrayer is name and nextTimeMs is that
\* entry's time on the day of now.
C37_ForcedIsNext ==
    \A name \in ForcedNames :
        (variant = "life" /\ lastOp = "force " \o name /\ name \in NameSet /\ IsEntry(name))
            => nextPrayer = name /\ nextTimeMs = TimeOf(name)

\* C38: on the per-day page a tick reloads the page exactly when the date
\* key of the tick differs from the currentDateKey captured at page load,
\* which is the key of the day the page was on before the tick: a tick on
\* the same day never reloads, the first tick after midnight does.
C38_ReloadOnNewDate ==
    [][(variant = "perday" /\ isInitialized /\ now' # now)
           => /\ lastOp' \in {"tick", "reload"}
              /\ lastOp' = "reload" <=> formatDate(now') # currentDateKey
              /\ lastOp' = "reload" <=> formatDate(now') # formatDate(now)
              /\ currentDateKey' = formatDate(now')]_vars

\* the page has been reloaded by the first tick after midnight
C38_Witness ==
    /\ variant = "perday"
    /\ lastOp = "reload"
    /\ now % MS_PER_DAY < UPDATE_INTERVAL

\* a tick on the day of the page load
C38_WitnessSameDay ==
    /\ variant = "perday"
    /\ lastOp = "tick"
    /\ currentDateKey = formatDate(now)

\* C39: after the highlight step of a tick at most one cell is marked
\* 'current', and only the cell of the resolved current entry, so none while
\* Imsak is current; a cell is marked 'passed' only if it is not the current
\* one and now is more than 5 minutes after its time; no cell carries both.
Highlighted == updatePrayerHighlight(todayPrayerTimes, now, currentPrayer)
C39_HighlightClasses ==
    Ticked =>
        /\ Cardinality({n \in DOMAIN Highlighted : "current" \in Highlighted[n]}) <= 1
        /\ \A n \in DOMAIN Highlighted :
               /\ "current" \in Highlighted[n]
                      => n = ResolveCurrent(todayPrayerTimes, now) /\ n # "Imsak"
               /\ "passed" \in Highlighted[n]
                      => /\ n # ResolveCurrent(todayPrayerTimes, now)
                         /\ now > TimeOf(n) + 5 * MS_PER_MINUTE
               /\ Highlighted[n] # {"current", "passed"}
        /\ ResolveCurrent(todayPrayerTimes, now) = "Imsak"
               => \A n \in DOMAIN Highlighted : "current" \notin Highlighted[n]

\* a tick that leaves one cell 'current' and an earlier one 'passed'
C39_Witness ==
    /\ Ticked
    /\ \E n, m \in DOMAIN Highlighted :
           Highlighted[n] = {"current"} /\ Highlighted[m] = {"passed"}

\* a tick while Imsak is the current entry
C39_WitnessImsak ==
    /\ Ticked
    /\ currentPrayer = "Imsak"
    /\ DOMAIN Highlighted # {}

\* C40: parseTime converts every well-formed string 'h:mm AM|PM' with
\* 1 <= h <= 12 and 0 <= mm <= 59 to (hour, minute) with 12 AM -> 0,
\* 12 PM -> 12, other PM hours -> h + 12 and other AM hours -> h, so that
\* 0 <= hour <= 23, and rejects every other input.  A string is taken as
\* well-formed with or without a leading zero of the hour, with one or two
\* digits of the minute, and with spaces around it.
Decimal(n) ==
    IF n < 10 THEN <<Digits[n + 1]>> ELSE <<Digits[(n \div 10) + 1], Digits[(n % 10) + 1]>>
NumberTexts(n) == {Decimal(n)} \cup (IF n < 10 THEN {<<"0">> \o Decimal(n)} ELSE {})
Modifiers == {<<"A", "M">>, <<"P", "M">>}
WellFormedAs(str) ==
    {<<h, m, mod>> \in (1..12) \X (0..59) \X Modifiers :
        \E ht \in NumberTexts(h) : \E mt \in NumberTexts(m) :
            trim(str) = ht \o <<":">> \o mt \o <<" ">> \o mod}
Hour24(h, mod) ==
    IF mod = <<"P", "M">> THEN (IF h = 12 THEN 12 ELSE h + 12)
    ELSE (IF h = 12 THEN 0 ELSE h)
C40_ParseTimeExact ==
    Done("parseTime") =>
        IF WellFormedAs(call.timeStr) # {}
        THEN \A w \in WellFormedAs(call.timeStr) :
                 /\ returned.ok
                 /\ returned.hour = Hour24(w[1], w[3])
                 /\ returned.minute = w[2]
                 /\ returned.hour \in 0..23
        ELSE ~returned.ok

\* the conversion of the well-formed strings alone
C40_WellFormedConverted ==
    Done("parseTime") =>
        \A w \in WellFormedAs(call.timeStr) :
            /\ returned.ok
            /\ returned.hour = Hour24(w[1], w[3])
            /\ returned.minute = w[2]
            /\ returned.hour \in 0..23

\* the inputs the text names are rejected
C40_NamedRejected ==
    (Done("parseTime") /\
     call.timeStr \in {<<"0", "5", ":", "4", "9">>,
                       <<"1", "3", ":", "0", "5", ":", "0", "0">>,
                       <<"0", ":", "0", "0", " ", "A", "M">>,
                       <<"1", "3", ":", "0", "0", " ", "P", "M">>,
                       <<"5", ":", "6", "0", " ", "A", "M">>,
                       <<"5", ":", "5", "9">>,
                       <<"5", ":", "5", "9", " ", "X", "M">>})
        => ~returned.ok

====
